---- MODULE Spec2Model ----
(***************************************************************************)
(* Model of the secure command-execution tools of adorable-cli:            *)
(*   src/adorable_cli/tools/security_config.py  (the policy)               *)
(*   src/adorable_cli/tools/secure_python.py    (SecurePythonTools)        *)
(*   src/adorable_cli/tools/secure_shell.py     (SecureShellTools)         *)
(* Python str values are TLA+ strings; Python lists are sequences.         *)
(***************************************************************************)
EXTENDS Integers, Sequences, FiniteSets, TLC

VARIABLES
    config,       \* security_config.config: the policy shared by both tools
    safe_globals, \* SecurePythonTools.safe_globals: names of the namespace
    safe_locals,  \* SecurePythonTools.safe_locals: names bound by executed code
    python_log,   \* lines of ~/.adorable/python_execution.log
    shell_log,    \* lines of ~/.adorable/shell_execution.log
    clock,        \* number of tool calls made so far (source of time.time())
    last,         \* what the last tool call did and returned
    val,          \* the last direct call of a validator and its verdict
    validations,  \* every direct call of a validator so far, in order
    in_flight,    \* the tool calls in flight on concurrent threads
    context,      \* the ExecutionContext in use, the last operation on it and its result
    evals,        \* the run of EvalRunner.run_suite in progress, what the agent saw and the report
    remote,       \* the RemoteAgent, the last call made on it and what its client received
    agent         \* the agent (or team) carrying the context-guard hooks and its runs

vars == <<config, safe_globals, safe_locals, python_log, shell_log, clock, last,
          val, validations, in_flight, context, evals, remote, agent>>

(***************************************************************************)
(* Bounds of the model.                                                    *)
(***************************************************************************)
MaxCalls == 2
MaxPieces == 2

(***************************************************************************)
(* Python str primitives.                                                  *)
(***************************************************************************)
Min(S) == CHOOSE m \in S : \A n \in S : m <= n

CharAt(s, i) == SubSeq(s, i, i)

\* sub in s
Contains(s, sub) ==
    \E i \in 1..(Len(s) - Len(sub) + 1) : SubSeq(s, i, i + Len(sub) - 1) = sub

\* s.startswith(p)
StartsWith(s, p) == Len(p) <= Len(s) /\ SubSeq(s, 1, Len(p)) = p

\* s.endswith(p)
EndsWith(s, p) == Len(p) <= Len(s) /\ SubSeq(s, Len(s) - Len(p) + 1, Len(s)) = p

\* the characters str.strip() removes and shlex treats as separators
Whitespace == {" ", "\t", "\r", "\n", "\f"}

\* s.strip()
Strip(s) ==
    LET keep == {i \in 1..Len(s) : CharAt(s, i) \notin Whitespace}
    IN  IF keep = {} THEN ""
        ELSE SubSeq(s, Min(keep), CHOOSE m \in keep : \A n \in keep : n <= m)

RECURSIVE SplitFrom(_, _, _)
SplitFrom(s, sep, start) ==
    LET hits == {i \in start..Len(s) : CharAt(s, i) = sep}
    IN  IF hits = {} THEN <<SubSeq(s, start, Len(s))>>
        ELSE <<SubSeq(s, start, Min(hits) - 1)>> \o SplitFrom(s, sep, Min(hits) + 1)

\* s.split(sep) for a one-character separator
Split(s, sep) == SplitFrom(s, sep, 1)

\* case folding of the ASCII letters, as re.IGNORECASE compares them
FoldMap ==
    LET upper == "ABCDEFGHIJKLMNOPQRSTUVWXYZ"
        lower == "abcdefghijklmnopqrstuvwxyz"
    IN  [c \in {CharAt(upper, i) : i \in 1..26} |->
            CharAt(lower, CHOOSE i \in 1..26 : CharAt(upper, i) = c)]

\* s.lower(), character by character (the halves are folded separately)
RECURSIVE Lower(_)
Lower(s) ==
    IF Len(s) <= 1 THEN (IF s \in DOMAIN FoldMap THEN FoldMap[s] ELSE s)
    ELSE LET half == Len(s) \div 2
         IN  Lower(SubSeq(s, 1, half)) \o Lower(SubSeq(s, half + 1, Len(s)))

(***************************************************************************)
(* SecurityConfig: the built-in policy and the policies a user file can    *)
(* turn it into.                                                           *)
(***************************************************************************)
DefaultSafeModules ==
    <<"pandas", "numpy", "matplotlib", "seaborn", "scipy", "sklearn",
      "json", "csv", "re", "datetime", "collections", "math",
      "statistics", "random", "itertools", "pathlib", "typing",
      "dataclasses", "fractions", "decimal", "string",
      "plotly", "bokeh", "altair">>

DefaultDangerousModules ==
    <<"subprocess", "os.system", "eval", "exec", "compile",
      "importlib", "__import__", "globals", "locals", "vars",
      "socket", "urllib", "requests", "http", "ftplib",
      "shutil", "tempfile", "glob", "fnmatch",
      "ctypes", "sys", "platform", "pwd", "grp",
      "pip", "setuptools", "conda", "pkg_resources">>

DefaultDangerousFunctions ==
    <<"exec", "eval", "compile", "__import__", "open",
      "file", "input", "raw_input", "reload", "help">>

DefaultAllowedCommands ==
    <<"cat", "head", "tail", "grep", "awk", "sed", "sort",
      "uniq", "cut", "wc", "tr", "split", "join", "nl",
      "ls", "pwd", "whoami", "date", "uptime", "df", "du",
      "tar", "zip", "unzip", "gzip", "gunzip",
      "echo", "printf", "tee">>

DefaultBlockedCommands ==
    <<"rm", "mv", "cp", "chmod", "chown", "sudo", "su",
      "kill", "killall", "pkill", "systemctl", "service",
      "curl", "wget", "nc", "netcat", "ssh", "scp", "rsync",
      "ping", "traceroute", "nslookup", "dig",
      "pip", "pip3", "conda", "apt", "yum", "dnf", "brew",
      "gcc", "g++", "make", "cmake", "python", "python3",
      "reboot", "shutdown", "halt", "poweroff", "init">>

_load_default_config ==
    [execution |->
        [use_pipx_python |-> TRUE, max_execution_time |-> 30,
         max_memory_mb |-> 512, audit_mode |-> FALSE, log_executions |-> TRUE,
         temp_dir |-> "/tmp/adorable_secure_exec", cleanup_temp |-> TRUE],
     python |->
        [safe_modules |-> DefaultSafeModules,
         dangerous_modules |-> DefaultDangerousModules,
         dangerous_functions |-> DefaultDangerousFunctions,
         allow_file_operations |-> FALSE,
         allowed_file_paths |-> <<"./data", "./results", ".">>],
     shell |->
        [allowed_commands |-> DefaultAllowedCommands,
         blocked_commands |-> DefaultBlockedCommands,
         allow_pipes |-> FALSE, allow_redirection |-> FALSE,
         allow_background |-> FALSE]]

(***************************************************************************)
(* SecurityConfig._load_user_config and _merge_config.  A value parsed     *)
(* from the YAML file carries its Python type; a dict is a function from   *)
(* its keys to such values.                                                *)
(***************************************************************************)
PyDict(f) == [type |-> "dict", v |-> f]
PyList(seq) == [type |-> "list", v |-> seq]
PyStr(s) == [type |-> "str", v |-> s]
PyInt(n) == [type |-> "int", v |-> n]
PyBool(b) == [type |-> "bool", v |-> b]
PyNone == [type |-> "none", v |-> <<>>]

\* isinstance(x, dict)
IsDict(x) == x.type = "dict"

\* bool(x): what "x or {}" tests
Truthy(x) ==
    CASE x.type = "dict" -> DOMAIN x.v # {}
      [] x.type = "list" -> x.v # <<>>
      [] x.type = "str" -> x.v # ""
      [] x.type = "int" -> x.v # 0
      [] x.type = "bool" -> x.v
      [] OTHER -> FALSE

\* the built-in policy as typed values: three dicts of lists and scalars
TypeOfDefault(key) ==
    IF key \in {"safe_modules", "dangerous_modules", "dangerous_functions",
                "allowed_file_paths", "allowed_commands", "blocked_commands"}
    THEN "list"
    ELSE IF key \in {"max_execution_time", "max_memory_mb"} THEN "int"
    ELSE IF key = "temp_dir" THEN "str"
    ELSE "bool"

DefaultTree ==
    PyDict([section \in DOMAIN _load_default_config |->
            PyDict([key \in DOMAIN _load_default_config[section] |->
                    [type |-> TypeOfDefault(key),
                     v |-> _load_default_config[section][key]]])])

RECURSIVE Untag(_)
\* the plain value of a typed value
Untag(x) == IF IsDict(x) THEN [key \in DOMAIN x.v |-> Untag(x.v[key])] ELSE x.v

\* _merge_config with base[key] = value for every key of the override
_merge_config_Shallow(base, override) ==
    [key \in DOMAIN base \cup DOMAIN override |->
        IF key \in DOMAIN override THEN override[key] ELSE base[key]]

RECURSIVE _merge_config(_, _)
\* _merge_config(base, override): base after the loop, for two dicts
_merge_config(base, override) ==
    [key \in DOMAIN base \cup DOMAIN override |->
        IF key \notin DOMAIN override THEN base[key]
        ELSE IF key \in DOMAIN base /\ IsDict(base[key]) /\ IsDict(override[key])
        THEN PyDict(_merge_config(base[key].v, override[key].v))
        ELSE override[key]]

\* the user policy file when it exists and parses to a value
Parsed(value) == [exists |-> TRUE, parses |-> TRUE, value |-> value]

\* _load_user_config: self.config afterwards (every exception is swallowed)
_load_user_config(base, file) ==
    IF ~file.exists THEN base
    ELSE IF ~file.parses THEN base
    ELSE LET user_config == IF Truthy(file.value) THEN file.value ELSE PyDict(<<>>)
         IN  IF ~IsDict(user_config) THEN base
             ELSE PyDict(_merge_config(base.v, user_config.v))

\* x in list
InList(x, list) == \E i \in 1..Len(list) : list[i] = x

(***************************************************************************)
(* SecurePythonTools._validate_code_safety                                 *)
(***************************************************************************)
\* the line is skipped by the scan: blank, or a comment
\* the skip test letting comment lines through to the checks
SkippedLine_BlankOnly(line) == Strip(line) = ""

SkippedLine(line) == Strip(line) = "" \/ StartsWith(Strip(line), "#")

\* the indexes of the dangerous functions called in the (stripped) line
FuncHits(cfg, line) ==
    {i \in 1..Len(cfg.dangerous_functions) :
        Contains(line, cfg.dangerous_functions[i] \o "(")}

\* the indexes of the dangerous modules whose import the (stripped) line holds
ModuleHits_ImportOnly(cfg, line) ==
    {i \in 1..Len(cfg.dangerous_modules) :
        LET module == cfg.dangerous_modules[i]
        IN  \/ Contains(line, "import " \o module)
            \/ Contains(line, "import " \o module \o " as")}

ModuleHits(cfg, line) ==
    {i \in 1..Len(cfg.dangerous_modules) :
        LET module == cfg.dangerous_modules[i]
        IN  \/ Contains(line, "import " \o module)
            \/ Contains(line, "from " \o module)
            \/ Contains(line, "import " \o module \o " as")}

FileOpHit_CallsOnly(cfg, line) ==
    /\ ~cfg.allow_file_operations
    /\ \E op \in {"open(", "file("} : Contains(line, op)

FileOpHit(cfg, line) ==
    /\ ~cfg.allow_file_operations
    /\ \E op \in {"open(", "file(", "with open"} : Contains(line, op)

\* the body of the loop for one line: a verdict, or <<>> to go on
CheckLine(cfg, raw, line_num) ==
    LET line == Strip(raw)
    IN  IF SkippedLine(raw) THEN <<>>
        ELSE IF FuncHits(cfg, line) # {}
        THEN <<FALSE, "Dangerous function '"
                      \o cfg.dangerous_functions[Min(FuncHits(cfg, line))]
                      \o "' found at line " \o ToString(line_num)>>
        ELSE IF ModuleHits(cfg, line) # {}
        THEN <<FALSE, "Dangerous module '"
                      \o cfg.dangerous_modules[Min(ModuleHits(cfg, line))]
                      \o "' import found at line " \o ToString(line_num)>>
        ELSE IF FileOpHit(cfg, line)
        THEN <<FALSE, "File operation not allowed at line " \o ToString(line_num)>>
        ELSE <<>>

RECURSIVE ScanLines(_, _, _, _)
ScanLines(cfg, lines, i, first_num) ==
    IF i > Len(lines) THEN <<TRUE, "Code safety validation passed">>
    ELSE LET r == CheckLine(cfg, lines[i], first_num + i - 1)
         IN  IF r # <<>> THEN r ELSE ScanLines(cfg, lines, i + 1, first_num)

\* the scan with enumerate(lines) counting from 0
_validate_code_safety_FromZero(cfg, code) == ScanLines(cfg, Split(code, "\n"), 1, 0)

_validate_code_safety(cfg, code) == ScanLines(cfg, Split(code, "\n"), 1, 1)

(***************************************************************************)
(* shlex.split(command): POSIX mode, whitespace_split, no comments.        *)
(* The result is [ok |-> TRUE, args |-> tokens] or, where shlex raises     *)
(* ValueError, [ok |-> FALSE, error |-> message].                          *)
(***************************************************************************)
ShlexWhitespace == {" ", "\t", "\r", "\n"}
ShlexQuotes == {"'", "\""}
ShlexEscape == "\\"
ShlexEscapedQuotes == {"\""}

RECURSIVE read_token(_, _, _, _, _, _, _)
read_token(s, i, state, escapedstate, token, quoted, tokens) ==
    IF i > Len(s)
    THEN IF state \in ShlexQuotes
         THEN [ok |-> FALSE, error |-> "No closing quotation"]
         ELSE IF state = ShlexEscape
         THEN [ok |-> FALSE, error |-> "No escaped character"]
         ELSE IF state = "a" /\ (token # "" \/ quoted)
         THEN [ok |-> TRUE, args |-> Append(tokens, token)]
         ELSE [ok |-> TRUE, args |-> tokens]
    ELSE LET nextchar == CharAt(s, i)
         IN  IF state = " "
             THEN IF nextchar \in ShlexWhitespace
                  THEN read_token(s, i + 1, " ", escapedstate, token, quoted, tokens)
                  ELSE IF nextchar = ShlexEscape
                  THEN read_token(s, i + 1, nextchar, "a", token, quoted, tokens)
                  ELSE IF nextchar \in ShlexQuotes
                  THEN read_token(s, i + 1, nextchar, escapedstate, token, TRUE, tokens)
                  ELSE read_token(s, i + 1, "a", escapedstate, nextchar, quoted, tokens)
             ELSE IF state \in ShlexQuotes
             THEN IF nextchar = state
                  THEN read_token(s, i + 1, "a", escapedstate, token, TRUE, tokens)
                  ELSE IF nextchar = ShlexEscape /\ state \in ShlexEscapedQuotes
                  THEN read_token(s, i + 1, nextchar, state, token, TRUE, tokens)
                  ELSE read_token(s, i + 1, state, escapedstate, token \o nextchar,
                                  TRUE, tokens)
             ELSE IF state = ShlexEscape
             THEN LET kept == IF /\ escapedstate \in ShlexQuotes
                                 /\ nextchar # state
                                 /\ nextchar # escapedstate
                              THEN state ELSE ""
                  IN  read_token(s, i + 1, escapedstate, escapedstate,
                                 token \o kept \o nextchar, quoted, tokens)
             ELSE \* state = "a"
                  IF nextchar \in ShlexWhitespace
                  THEN IF token # "" \/ quoted
                       THEN read_token(s, i + 1, " ", " ", "", FALSE,
                                       Append(tokens, token))
                       ELSE read_token(s, i + 1, " ", escapedstate, token, quoted, tokens)
                  ELSE IF nextchar \in ShlexQuotes
                  THEN read_token(s, i + 1, nextchar, escapedstate, token, TRUE, tokens)
                  ELSE IF nextchar = ShlexEscape
                  THEN read_token(s, i + 1, nextchar, "a", token, quoted, tokens)
                  ELSE \* the characters up to the next separator, quote or
                       \* escape are read one by one in this state
                       LET special == {j \in i..Len(s) :
                                          CharAt(s, j) \in ShlexWhitespace \cup ShlexQuotes
                                                              \cup {ShlexEscape}}
                           stop == IF special = {} THEN Len(s) + 1 ELSE Min(special)
                       IN  read_token(s, stop, "a", escapedstate,
                                      token \o SubSeq(s, i, stop - 1), quoted, tokens)

shlex_split(s) == read_token(s, 1, " ", " ", "", FALSE, <<>>)

(***************************************************************************)
(* re.search(pattern, command, re.IGNORECASE) for the patterns of          *)
(* dangerous_patterns.  A pattern is its source text and its items: a      *)
(* literal, or a run of whitespace of at least min characters.             *)
(***************************************************************************)
Lit(text) == [kind |-> "lit", text |-> text, min |-> 0]
Ws(min) == [kind |-> "ws", text |-> "", min |-> min]

dangerous_patterns ==
    << [src |-> ";\\s*rm\\s+",    items |-> <<Lit(";"), Ws(0), Lit("rm"), Ws(1)>>],
       [src |-> "&&\\s*rm\\s+",   items |-> <<Lit("&&"), Ws(0), Lit("rm"), Ws(1)>>],
       [src |-> "\\|\\|\\s*rm\\s+", items |-> <<Lit("||"), Ws(0), Lit("rm"), Ws(1)>>],
       [src |-> "rm\\s+-rf\\s+/", items |-> <<Lit("rm"), Ws(1), Lit("-rf"), Ws(1), Lit("/")>>],
       [src |-> "chmod\\s+777",   items |-> <<Lit("chmod"), Ws(1), Lit("777")>>],
       [src |-> "sudo\\s+",       items |-> <<Lit("sudo"), Ws(1)>>] >>

RECURSIVE MatchFrom(_, _, _, _)
MatchFrom(items, k, s, i) ==
    IF k > Len(items) THEN TRUE
    ELSE LET item == items[k]
         IN  IF item.kind = "lit"
             THEN LET n == Len(item.text)
                  IN  /\ i + n - 1 <= Len(s)
                      /\ SubSeq(s, i, i + n - 1) = item.text
                      /\ MatchFrom(items, k + 1, s, i + n)
             ELSE \E n \in item.min..(Len(s) - i + 1) :
                      /\ \A j \in i..(i + n - 1) : CharAt(s, j) \in {" ", "\t", "\n", "\r", "\f"}
                      /\ MatchFrom(items, k + 1, s, i + n)

\* the pattern with its literals case-folded
Folded(items) ==
    [k \in 1..Len(items) |-> [items[k] EXCEPT !.text = Lower(items[k].text)]]

\* re.search(pattern, s) without the IGNORECASE flag
re_search_CaseSensitive(pattern, s) ==
    \E i \in 1..(Len(s) + 1) : MatchFrom(pattern.items, 1, s, i)

\* re.search(pattern, s, re.IGNORECASE) is not None: pattern and subject
\* are compared case-folded
re_search(pattern, s) ==
    LET subject == Lower(s)
        items == Folded(pattern.items)
    IN  \E i \in 1..(Len(s) + 1) : MatchFrom(items, 1, subject, i)

(***************************************************************************)
(* SecureShellTools._validate_command_safety                               *)
(***************************************************************************)
\* lines 39-45: the allow-list, then the block-list; <<>> lets the command on
CheckMainCmd_AllowListOnly(cfg, main_cmd) ==
    IF ~InList(main_cmd, cfg.allowed_commands)
    THEN <<FALSE, "Command '" \o main_cmd \o "' is not in allowed list">>
    ELSE <<>>

CheckMainCmd(cfg, main_cmd) ==
    IF ~InList(main_cmd, cfg.allowed_commands)
    THEN <<FALSE, "Command '" \o main_cmd \o "' is not in allowed list">>
    ELSE IF InList(main_cmd, cfg.blocked_commands)
    THEN <<FALSE, "Command '" \o main_cmd \o "' is blocked">>
    ELSE <<>>

\* lines 47-57: pipes, redirection, background execution
CheckOperators_OutputOnly(cfg, command) ==
    IF Contains(command, "|") /\ ~cfg.allow_pipes
    THEN <<FALSE, "Pipe operations are not allowed">>
    ELSE IF Contains(command, ">") /\ ~cfg.allow_redirection
    THEN <<FALSE, "Redirection operations are not allowed">>
    ELSE IF Contains(command, "&") /\ ~cfg.allow_background
    THEN <<FALSE, "Background execution is not allowed">>
    ELSE <<>>

CheckOperators(cfg, command) ==
    IF Contains(command, "|") /\ ~cfg.allow_pipes
    THEN <<FALSE, "Pipe operations are not allowed">>
    ELSE IF (Contains(command, ">") \/ Contains(command, "<"))
            /\ ~cfg.allow_redirection
    THEN <<FALSE, "Redirection operations are not allowed">>
    ELSE IF Contains(command, "&") /\ ~cfg.allow_background
    THEN <<FALSE, "Background execution is not allowed">>
    ELSE <<>>

\* lines 59-67: the first dangerous pattern found in the raw command
CheckPatterns(command) ==
    LET hits == {k \in 1..Len(dangerous_patterns) :
                    re_search(dangerous_patterns[k], command)}
    IN  IF hits # {}
        THEN <<FALSE, "Dangerous command pattern detected: "
                      \o dangerous_patterns[Min(hits)].src>>
        ELSE <<>>

\* _validate_command_safety without the test for an empty token list
_validate_command_safety_NoEmptyTest(cfg, command) ==
    LET parsed == shlex_split(command)
    IN  IF ~parsed.ok
        THEN <<FALSE, "Command parsing error: " \o parsed.error>>
        ELSE IF parsed.args = <<>>
        THEN <<TRUE, "Command validation passed">>
        ELSE IF CheckMainCmd(cfg, parsed.args[1]) # <<>>
        THEN CheckMainCmd(cfg, parsed.args[1])
        ELSE IF CheckOperators(cfg, command) # <<>>
        THEN CheckOperators(cfg, command)
        ELSE IF CheckPatterns(command) # <<>>
        THEN CheckPatterns(command)
        ELSE <<TRUE, "Command validation passed">>

\* _validate_command_safety with the pattern test ahead of the lists
_validate_command_safety_PatternsFirst(cfg, command) ==
    LET parsed == shlex_split(command)
    IN  IF ~parsed.ok
        THEN <<FALSE, "Command parsing error: " \o parsed.error>>
        ELSE IF parsed.args = <<>>
        THEN <<FALSE, "Empty command">>
        ELSE IF CheckPatterns(command) # <<>>
        THEN CheckPatterns(command)
        ELSE IF CheckMainCmd(cfg, parsed.args[1]) # <<>>
        THEN CheckMainCmd(cfg, parsed.args[1])
        ELSE IF CheckOperators(cfg, command) # <<>>
        THEN CheckOperators(cfg, command)
        ELSE <<TRUE, "Command validation passed">>

_validate_command_safety(cfg, command) ==
    LET parsed == shlex_split(command)
    IN  IF ~parsed.ok
        THEN <<FALSE, "Command parsing error: " \o parsed.error>>
        ELSE IF parsed.args = <<>>
        THEN <<FALSE, "Empty command">>
        ELSE IF CheckMainCmd(cfg, parsed.args[1]) # <<>>
        THEN CheckMainCmd(cfg, parsed.args[1])
        ELSE IF CheckOperators(cfg, command) # <<>>
        THEN CheckOperators(cfg, command)
        ELSE IF CheckPatterns(command) # <<>>
        THEN CheckPatterns(command)
        ELSE <<TRUE, "Command validation passed">>

(***************************************************************************)
(* SecurePythonTools._create_safe_globals                                  *)
(***************************************************************************)
\* the modules the host interpreter can import
InstalledModules ==
    {"json", "csv", "re", "datetime", "collections", "math", "statistics",
     "random", "itertools", "pathlib", "typing", "dataclasses", "fractions",
     "decimal", "string", "os", "sys", "subprocess", "shutil", "socket"}

SafeBuiltins ==
    {"abs", "all", "any", "bin", "bool", "chr", "divmod", "enumerate",
     "filter", "float", "hex", "int", "len", "list", "map", "max", "min",
     "oct", "ord", "pow", "range", "reversed", "round", "sorted", "str",
     "sum", "tuple", "type", "zip", "print", "__import__"}

\* restricted_import(name): "ok", or the ImportError it raises
restricted_import_FullName(cfg, name) ==
    IF ~InList(name, cfg.safe_modules)
    THEN "Module '" \o name \o "' not allowed"
    ELSE IF Split(name, ".")[1] \in InstalledModules THEN "ok"
    ELSE "No module named '" \o Split(name, ".")[1] \o "'"

restricted_import(cfg, name) ==
    LET base == Split(name, ".")[1]
    IN  IF ~InList(base, cfg.safe_modules)
        THEN "Module '" \o name \o "' not allowed"
        ELSE IF base \in InstalledModules THEN "ok"
        ELSE "No module named '" \o base \o "'"

_create_safe_globals(cfg) ==
    [builtins |-> SafeBuiltins,
     names |-> {"pi", "e"} \cup
               {cfg.safe_modules[i] : i \in
                   {j \in 1..Len(cfg.safe_modules) :
                       restricted_import(cfg, cfg.safe_modules[j]) = "ok"}}]

(***************************************************************************)
(* The two tool calls.  A call's outcome records every step it took:       *)
(*   validated/verdict   the validator ran and what it said                *)
(*   engine_*            the engine was invoked, with what, and its output *)
(*   log_written         the audit record was appended                     *)
(*   log_failed          writing the audit record raised                   *)
(*   ret / raised        the returned string, or the escaping exception    *)
(***************************************************************************)
NoVariable == "<None>"
DefaultTail == 100
CodeExcerptLimit == 200

NoOutcome ==
    [validated |-> FALSE, verdict |-> <<>>,
     engine_called |-> FALSE, engine_arg |-> <<>>, engine_opt |-> <<>>,
     engine_out |-> "",
     log_written |-> FALSE, log_failed |-> FALSE, log_entry |-> <<>>,
     ret |-> "", raised |-> ""]

\* SecurePythonTools._log_text_output: the record it builds
PythonLogEntry(now, code, output) ==
    [timestamp |-> now,
     type |-> "python",
     code |-> IF Len(code) > CodeExcerptLimit
              THEN SubSeq(code, 1, CodeExcerptLimit) \o "..." ELSE code,
     success |-> ~StartsWith(output, "Error:"),
     output_length |-> Len(output),
     error_length |-> IF ~StartsWith(output, "Error:") THEN 0 ELSE Len(output)]

\* SecureShellTools._log_text_output: the record it builds
ShellLogEntry(now, command, output) ==
    [timestamp |-> now,
     type |-> "shell",
     command |-> command,
     success |-> ~StartsWith(output, "Error:"),
     output_length |-> Len(output),
     error_length |-> IF ~StartsWith(output, "Error:") THEN 0 ELSE Len(output)]

\* RunAndLog writing the audit record whatever log_executions says
RunAndLog_AlwaysLog(cfg, v, arg, opt, output, log_ok, entry) ==
    LET called == [NoOutcome EXCEPT !.validated = TRUE, !.verdict = v,
                                    !.engine_called = TRUE, !.engine_arg = arg,
                                    !.engine_opt = opt, !.engine_out = output]
    IN  IF log_ok
        THEN [called EXCEPT !.log_written = TRUE, !.log_entry = entry,
                            !.ret = output]
        ELSE [called EXCEPT !.log_failed = TRUE, !.raised = "OSError"]

\* lines 133-138 / 83-88: run the engine, then log, then return its output.
\* output is the string the engine returns for the call; log_ok is whether
\* mkdir, open and write of the log file all succeed (they raise OSError
\* otherwise, and nothing catches it).
RunAndLog(cfg, v, arg, opt, output, log_ok, entry) ==
    LET called == [NoOutcome EXCEPT !.validated = TRUE, !.verdict = v,
                                    !.engine_called = TRUE, !.engine_arg = arg,
                                    !.engine_opt = opt, !.engine_out = output]
    IN  IF cfg.execution.log_executions
        THEN IF log_ok
             THEN [called EXCEPT !.log_written = TRUE, !.log_entry = entry,
                                 !.ret = output]
             ELSE [called EXCEPT !.log_failed = TRUE, !.raised = "OSError"]
        ELSE [called EXCEPT !.ret = output]

\* execute_python_code running the engine whatever the validator said
execute_python_code_Ungated(cfg, now, code, variable_to_return, output, log_ok) ==
    IF cfg.execution.audit_mode
    THEN [NoOutcome EXCEPT !.ret = "[AUDIT MODE] Would execute Python code:\n" \o code]
    ELSE RunAndLog(cfg, _validate_code_safety(cfg.python, code), code,
                   variable_to_return, output, log_ok,
                   PythonLogEntry(now, code, output))

\* execute_python_code raising on a rejected payload instead of returning
execute_python_code_RaiseOnReject(cfg, now, code, variable_to_return, output, log_ok) ==
    IF cfg.execution.audit_mode
    THEN [NoOutcome EXCEPT !.ret = "[AUDIT MODE] Would execute Python code:\n" \o code]
    ELSE LET v == _validate_code_safety(cfg.python, code)
         IN  IF ~v[1]
             THEN [NoOutcome EXCEPT !.validated = TRUE, !.verdict = v,
                                    !.raised = "SecurityError"]
             ELSE RunAndLog(cfg, v, code, variable_to_return, output, log_ok,
                            PythonLogEntry(now, code, output))

\* execute_python_code returning the validator's reason without its prefix
execute_python_code_BareReason(cfg, now, code, variable_to_return, output, log_ok) ==
    IF cfg.execution.audit_mode
    THEN [NoOutcome EXCEPT !.ret = "[AUDIT MODE] Would execute Python code:\n" \o code]
    ELSE LET v == _validate_code_safety(cfg.python, code)
         IN  IF ~v[1]
             THEN [NoOutcome EXCEPT !.validated = TRUE, !.verdict = v, !.ret = v[2]]
             ELSE RunAndLog(cfg, v, code, variable_to_return, output, log_ok,
                            PythonLogEntry(now, code, output))

\* SecurePythonTools.execute_python_code
execute_python_code(cfg, now, code, variable_to_return, output, log_ok) ==
    IF cfg.execution.audit_mode
    THEN [NoOutcome EXCEPT !.ret = "[AUDIT MODE] Would execute Python code:\n" \o code]
    ELSE LET v == _validate_code_safety(cfg.python, code)
         IN  IF ~v[1]
             THEN [NoOutcome EXCEPT !.validated = TRUE, !.verdict = v,
                       !.ret = "Error: Security validation failed: " \o v[2]]
             ELSE RunAndLog(cfg, v, code, variable_to_return, output, log_ok,
                            PythonLogEntry(now, code, output))

\* run_shell_command validating before it looks at audit_mode
run_shell_command_ValidateFirst(cfg, now, command, tail, output, log_ok) ==
    LET v == _validate_command_safety(cfg.shell, command)
    IN  IF ~v[1]
        THEN [NoOutcome EXCEPT !.validated = TRUE, !.verdict = v,
                  !.ret = "Error: Security validation failed: " \o v[2]]
        ELSE IF cfg.execution.audit_mode
        THEN [NoOutcome EXCEPT !.validated = TRUE, !.verdict = v,
                  !.ret = "[AUDIT MODE] Would execute shell command: " \o command]
        ELSE RunAndLog(cfg, v, shlex_split(command).args, tail, output, log_ok,
                       ShellLogEntry(now, command, output))

\* SecureShellTools.run_shell_command
\* run_shell_command handing the engine command.split(" ")
run_shell_command_PlainSplit(cfg, now, command, tail, output, log_ok) ==
    IF cfg.execution.audit_mode
    THEN [NoOutcome EXCEPT !.ret = "[AUDIT MODE] Would execute shell command: " \o command]
    ELSE LET v == _validate_command_safety(cfg.shell, command)
         IN  IF ~v[1]
             THEN [NoOutcome EXCEPT !.validated = TRUE, !.verdict = v,
                       !.ret = "Error: Security validation failed: " \o v[2]]
             ELSE RunAndLog(cfg, v, Split(command, " "), tail, output, log_ok,
                            ShellLogEntry(now, command, output))

run_shell_command(cfg, now, command, tail, output, log_ok) ==
    IF cfg.execution.audit_mode
    THEN [NoOutcome EXCEPT !.ret = "[AUDIT MODE] Would execute shell command: " \o command]
    ELSE LET v == _validate_command_safety(cfg.shell, command)
         IN  IF ~v[1]
             THEN [NoOutcome EXCEPT !.validated = TRUE, !.verdict = v,
                       !.ret = "Error: Security validation failed: " \o v[2]]
             ELSE RunAndLog(cfg, v, shlex_split(command).args, tail, output, log_ok,
                            ShellLogEntry(now, command, output))

(***************************************************************************)
(* Inputs of the model.                                                    *)
(***************************************************************************)
WithPolicy(audit_mode, log_executions, python, shell) ==
    [_load_default_config EXCEPT
        !.execution.audit_mode = audit_mode,
        !.execution.log_executions = log_executions,
        !.python = python, !.shell = shell]

DefaultPython == _load_default_config.python
DefaultShell == _load_default_config.shell

\* a user policy that allow-lists rm, chmod and sudo and allows all operators
PermissiveShell ==
    [DefaultShell EXCEPT
        !.allowed_commands = DefaultAllowedCommands \o <<"rm", "chmod", "sudo">>,
        !.blocked_commands = <<"chmod">>,
        !.allow_pipes = TRUE, !.allow_redirection = TRUE,
        !.allow_background = TRUE]

\* a user policy with a short dangerous list and file operations allowed
PermissivePython ==
    [DefaultPython EXCEPT
        !.dangerous_functions = <<"open", "eval">>,
        !.dangerous_modules = <<"sys">>,
        !.allow_file_operations = TRUE]

Configs ==
    {WithPolicy(a, l, pol[1], pol[2]) :
        a \in BOOLEAN, l \in BOOLEAN,
        pol \in {<<DefaultPython, DefaultShell>>, <<PermissivePython, PermissiveShell>>}}

CallCodes ==
    {"print(sum([1,2,3,4]))", "eval('2+2')", "import subprocess", "x = 1"}

CallCommands == {"ls", "cat a | grep b", "rm -rf /"}

\* what the engine returns: the captured output, or its own error text
EngineOutputs == {"10", "Error: exit 1"}

\* the names the statements of the code bind when they run: the targets of
\* its assignment lines "NAME = ..."
AssignedNames(code) ==
    LET lines == Split(code, "\n")
        Target(line) ==
            SubSeq(line, 1, Min({i \in 1..(Len(line) - 2) : SubSeq(line, i, i + 2) = " = "}) - 1)
    IN  {Target(Strip(lines[n])) :
            n \in {m \in 1..Len(lines) : Contains(Strip(lines[m]), " = ")}}

\* the engine runs the code in the safe_globals and safe_locals it was
\* constructed with: the sets of names the run may leave bound in
\* safe_locals (all of them, or when it reports an error possibly none)
EngineBinds(code, output) ==
    IF StartsWith(output, "Error") THEN {{}, AssignedNames(code)}
    ELSE {AssignedNames(code)}

NoCall ==
    [op |-> "none", payload |-> "", opt |-> <<>>, after_reject |-> FALSE,
     locals_seen |-> {}] @@ NoOutcome

NoValidation == [kind |-> "none", input |-> "", result |-> <<>>, at |-> 0]

\* no ExecutionContext created yet
NoContext == [op |-> "none", result |-> 0]

\* no run of run_suite yet
NoRun == [pc |-> "idle"]

\* no RemoteAgent constructed
NoRemote == [op |-> "none"]

\* no agent built
NoAgent == [num_history_runs |-> 0]

\* the components outside the two tools are not in use
AuxIdle ==
    /\ in_flight = <<>>
    /\ context = NoContext
    /\ evals = NoRun
    /\ remote = NoRemote
    /\ agent = NoAgent

\* the call before this one was on the same tool and was rejected
AfterReject(op) == last.op = op /\ last.validated /\ ~last.verdict[1]

(***************************************************************************)
(* The tools in use: any sequence of calls of the two tools.               *)
(***************************************************************************)
Init ==
    /\ config \in Configs
    /\ safe_globals = _create_safe_globals(config.python)
    /\ safe_locals = {}
    /\ validations = <<>>
    /\ python_log = <<>>
    /\ shell_log = <<>>
    /\ clock = 0
    /\ last = NoCall
    /\ val = NoValidation
    /\ AuxIdle

ExecutePythonCode(code, variable_to_return, output, log_ok) ==
    /\ clock < MaxCalls
    /\ clock' = clock + 1
    /\ \E o \in {execute_python_code(config, clock + 1, code, variable_to_return,
                                    output, log_ok)} :
           /\ last' = [op |-> "execute_python_code", payload |-> code,
                       opt |-> variable_to_return,
                       after_reject |-> AfterReject("execute_python_code"),
                       locals_seen |-> IF o.engine_called THEN safe_locals ELSE {}]
                          @@ o
           /\ python_log' = IF o.log_written THEN Append(python_log, o.log_entry)
                            ELSE python_log
           /\ IF o.engine_called
              THEN \E bound \in EngineBinds(code, output) :
                       safe_locals' = safe_locals \cup bound
              ELSE safe_locals' = safe_locals
    /\ UNCHANGED <<config, safe_globals, shell_log, val, validations>>
    /\ UNCHANGED <<in_flight, context, evals, remote, agent>>

RunShellCommand(command, tail, output, log_ok) ==
    /\ clock < MaxCalls
    /\ clock' = clock + 1
    /\ \E o \in {run_shell_command(config, clock + 1, command, tail, output, log_ok)} :
           /\ last' = [op |-> "run_shell_command", payload |-> command,
                       opt |-> tail,
                       after_reject |-> AfterReject("run_shell_command"),
                       locals_seen |-> {}] @@ o
           /\ shell_log' = IF o.log_written THEN Append(shell_log, o.log_entry)
                           ELSE shell_log
    /\ UNCHANGED <<config, safe_globals, safe_locals, python_log, val, validations>>
    /\ UNCHANGED <<in_flight, context, evals, remote, agent>>

Next ==
    \/ \E code \in CallCodes, v \in {NoVariable, "x"},
          output \in EngineOutputs, log_ok \in BOOLEAN :
            ExecutePythonCode(code, v, output, log_ok)
    \/ \E command \in CallCommands, tail \in {DefaultTail, 5},
          output \in EngineOutputs, log_ok \in BOOLEAN :
            RunShellCommand(command, tail, output, log_ok)

Spec == Init /\ [][Next]_vars

(***************************************************************************)
(* The validators on their own: one policy, one input, one verdict.        *)
(***************************************************************************)
PythonPolicies ==
    {[DefaultPython EXCEPT !.dangerous_functions = f, !.dangerous_modules = m,
                           !.allow_file_operations = a] :
        f \in {DefaultDangerousFunctions, <<"open", "eval">>, <<>>},
        m \in {DefaultDangerousModules, <<"sys">>},
        a \in BOOLEAN}

ShellPolicies ==
    {[allowed_commands |-> l[1], blocked_commands |-> l[2],
      allow_pipes |-> p, allow_redirection |-> r, allow_background |-> b] :
        l \in {<<DefaultAllowedCommands, DefaultBlockedCommands>>,
               <<DefaultAllowedCommands \o <<"rm", "chmod", "sudo">>, <<"chmod">>>>,
               <<<<"ls", "rm", "sudo">>, <<"rm", "ls">>>>,
               <<<<"rm", "sudo", "chmod">>, <<>>>>},
        p \in BOOLEAN, r \in BOOLEAN, b \in BOOLEAN}

ValidateConfigs ==
    {WithPolicy(FALSE, TRUE, p, DefaultShell) : p \in PythonPolicies}
    \cup {WithPolicy(FALSE, TRUE, DefaultPython, sh) : sh \in ShellPolicies}

RECURSIVE Joined(_, _)
\* the strings made of at most n of the pieces
Joined(pieces, n) ==
    IF n = 0 THEN {""}
    ELSE LET shorter == Joined(pieces, n - 1)
         IN  shorter \cup {s \o p : s \in shorter, p \in pieces}

CodePieces == {"eval(", "open(", "# ", "\n", " ", "x = 1", "import sys", "with open"}

ValidateCodes ==
    Joined(CodePieces, MaxPieces)
    \cup {"print(sum([1,2,3,4]))", "eval('2+2')", "import subprocess\nprint('ok')",
          "open('/etc/hosts').read()", "x = 1\n\n  # c\ny = myeval(x)",
          "import sys\neval(1)", "f = 1\nwith open\nopen(f)",
          "# eval(1)\nx = 1\neval(x)",
          "x = 1\n# import sys\n  from subprocess import run",
          "eval(1)\nimport sys", "import subprocess"}

CommandPieces == {"ls", "rm", " ", "sudo ", "-rf /", ";", "'", "|", "&&"}

ValidateCommands ==
    Joined(CommandPieces, MaxPieces)
    \cup {"grep -n Adorable README.md", "cat README.md | grep Adorable",
          "curl https://example.com", "ls > out.txt", "rm -RF /", "RM -rf /tmp",
          "Sudo  ls", "chmod 777 f", "ls ;  RM\tx", "ls && rm x", "ls || rm x",
          "ls 'a b' \"c\\\"d\" e\\ f", "ls \\", "'ls' -l", "ls ;rm",
          "cat a | grep b", "ls &", "ls < in.txt", "ls | cat > f &"}

InitValidate ==
    /\ config \in ValidateConfigs
    /\ safe_globals = _create_safe_globals(config.python)
    /\ safe_locals = {}
    /\ validations = <<>>
    /\ python_log = <<>>
    /\ shell_log = <<>>
    /\ clock = 0
    /\ last = NoCall
    /\ val = NoValidation
    /\ AuxIdle

\* a validation that also appends the verdict to the python audit log
ValidateCode_Logged(code) ==
    /\ val' = [kind |-> "python", input |-> code,
               result |-> _validate_code_safety(config.python, code), at |-> clock]
    /\ validations' = Append(validations, val')
    /\ python_log' = Append(python_log, PythonLogEntry(clock, code, val'.result[2]))
    /\ UNCHANGED <<config, safe_globals, safe_locals, shell_log, clock, last>>
    /\ UNCHANGED <<in_flight, context, evals, remote, agent>>

\* a direct call of _validate_code_safety, made after `clock` tool calls
ValidateCode(code) ==
    /\ val' = [kind |-> "python", input |-> code,
               result |-> _validate_code_safety(config.python, code), at |-> clock]
    /\ validations' = Append(validations, val')
    /\ UNCHANGED <<config, safe_globals, safe_locals, python_log, shell_log, clock, last>>
    /\ UNCHANGED <<in_flight, context, evals, remote, agent>>

ValidateCommand(command) ==
    /\ val' = [kind |-> "shell", input |-> command,
               result |-> _validate_command_safety(config.shell, command), at |-> clock]
    /\ validations' = Append(validations, val')
    /\ UNCHANGED <<config, safe_globals, safe_locals, python_log, shell_log, clock, last>>
    /\ UNCHANGED <<in_flight, context, evals, remote, agent>>

NextValidate ==
    \/ \E code \in ValidateCodes : val.kind = "none" /\ ValidateCode(code)
    \/ \E command \in ValidateCommands : val.kind = "none" /\ ValidateCommand(command)

SpecValidate == InitValidate /\ [][NextValidate]_vars

(***************************************************************************)
(* Tool calls and direct validator calls on the same tools, in any order.  *)
(***************************************************************************)
InterleaveCodes == {"eval('2+2')", "x = 1"}
InterleaveCommands == {"ls", "rm -rf /"}

InitInterleave == Init /\ config.execution.log_executions

NextInterleave ==
    \/ \E code \in InterleaveCodes : ExecutePythonCode(code, NoVariable, "10", TRUE)
    \/ \E command \in InterleaveCommands :
           RunShellCommand(command, DefaultTail, "10", TRUE)
    \/ \E code \in InterleaveCodes :
           Len(validations) < MaxCalls /\ ValidateCode(code)
    \/ \E command \in InterleaveCommands :
           Len(validations) < MaxCalls /\ ValidateCommand(command)

SpecInterleave == InitInterleave /\ [][NextInterleave]_vars

(***************************************************************************)
(* The restricted namespace on its own: one policy, the namespace built    *)
(* from it, and one use of it by executed code: an import through the      *)
(* "__import__" of its builtins, or the lookup of a global name.           *)
(***************************************************************************)
ImportPolicies ==
    {[DefaultPython EXCEPT !.safe_modules = l[1], !.dangerous_modules = l[2]] :
        l \in {<<DefaultSafeModules, DefaultDangerousModules>>,
               <<DefaultSafeModules \o <<"sys", "subprocess">>, DefaultDangerousModules>>,
               <<<<"json", "os", "numpy">>, <<"os", "numpy", "socket">>>>,
               <<<<"json", "os">>, <<>>>>,
               <<<<"os.path">>, <<"json">>>>,
               <<<<>>, DefaultDangerousModules>>}}

ImportNames ==
    {"json", "json.decoder", "os", "os.path", "sys", "subprocess", "socket",
     "numpy", "numpy.linalg", "math", "xml.dom", "", ".json", "jsonx"}

InitImport ==
    /\ config \in {WithPolicy(FALSE, TRUE, p, DefaultShell) : p \in ImportPolicies}
    /\ safe_globals = _create_safe_globals(config.python)
    /\ safe_locals = {}
    /\ validations = <<>>
    /\ python_log = <<>>
    /\ shell_log = <<>>
    /\ clock = 0
    /\ last = NoCall
    /\ val = NoValidation
    /\ AuxIdle

\* executed code runs "import name": the hook of the namespace answers
Import(name) ==
    /\ val.kind = "none"
    /\ "__import__" \in safe_globals.builtins
    /\ val' = [kind |-> "import", input |-> name,
               result |-> restricted_import(config.python, name), at |-> clock]
    /\ UNCHANGED <<config, safe_globals, safe_locals, python_log, shell_log, clock, last,
                 validations>>
    /\ UNCHANGED <<in_flight, context, evals, remote, agent>>

\* executed code reads the global name: bound in the namespace or not
Lookup(name) ==
    /\ val.kind = "none"
    /\ val' = [kind |-> "lookup", input |-> name,
               result |-> name \in safe_globals.names, at |-> clock]
    /\ UNCHANGED <<config, safe_globals, safe_locals, python_log, shell_log, clock, last,
                 validations>>
    /\ UNCHANGED <<in_flight, context, evals, remote, agent>>

NextImport ==
    \/ \E name \in ImportNames : Import(name)
    \/ \E name \in ImportNames \cup {"pi", "e"} : Lookup(name)

SpecImport == InitImport /\ [][NextImport]_vars

(***************************************************************************)
(* SecurityConfig() at start-up: the defaults, then the user policy file.  *)
(***************************************************************************)
ExecutionOverrides ==
    {PyNone, PyDict([audit_mode |-> PyBool(TRUE)]),
     PyDict([log_executions |-> PyBool(FALSE), max_execution_time |-> PyInt(5)])}

PythonOverrides ==
    {PyNone,
     PyDict([allow_file_operations |-> PyBool(TRUE), extra |-> PyInt(1)]),
     PyDict([safe_modules |-> PyList(<<"json", "os">>),
           dangerous_modules |-> PyList(<<"os">>)]),
     PyDict([dangerous_functions |-> PyInt(5)]),
     PyDict([safe_modules |-> PyInt(5)]),
     PyStr("off")}

ShellOverrides ==
    {PyNone, PyDict([allow_pipes |-> PyBool(TRUE)]),
     PyDict([allowed_commands |-> PyList(<<"ls", "rm">>),
           blocked_commands |-> PyList(<<>>)])}

CustomOverrides == {PyNone, PyDict([level |-> PyDict([a |-> PyInt(1)])]), PyInt(7)}

\* the mapping with the given values for the four keys, PyNone meaning absent
Override(execution, python, shell, custom) ==
    LET all == [execution |-> execution, python |-> python,
                shell |-> shell, custom |-> custom]
    IN  PyDict([key \in {k \in DOMAIN all : all[k] # PyNone} |-> all[key]])

UserFiles ==
    {[exists |-> FALSE, parses |-> FALSE, value |-> PyNone],
     [exists |-> TRUE, parses |-> FALSE, value |-> PyNone],
     Parsed(PyNone), Parsed(PyList(<<"a", "b">>)), Parsed(PyStr("audit")),
     Parsed(PyInt(0)), Parsed(PyBool(TRUE))}
    \cup {Parsed(Override(x, p, sh, c)) :
             x \in ExecutionOverrides, p \in PythonOverrides,
             sh \in ShellOverrides, c \in CustomOverrides}

InitLoad ==
    /\ config = _load_default_config
    /\ safe_globals = [builtins |-> {}, names |-> {}]
    /\ safe_locals = {}
    /\ validations = <<>>
    /\ python_log = <<>>
    /\ shell_log = <<>>
    /\ clock = 0
    /\ last = NoCall
    /\ val = NoValidation
    /\ AuxIdle

\* SecurityConfig.__init__ reaching _load_user_config with this file
LoadUserConfig(file) ==
    /\ val.kind = "none"
    /\ \E loaded \in {_load_user_config(DefaultTree, file)} :
           /\ val' = [kind |-> "load", input |-> file, result |-> loaded, at |-> clock]
           /\ config' = Untag(loaded)
    /\ UNCHANGED <<safe_globals, safe_locals, python_log, shell_log, clock, last,
                   validations>>
    /\ UNCHANGED <<in_flight, context, evals, remote, agent>>

\* SecurePythonTools.__init__ on the loaded policy: "" or the exception.
\* self.config["safe_modules"] needs a dict, the loop over it a list (a
\* str would be looped over by character; no file of UserFiles has one)
InitRaises(policy) ==
    IF ~IsDict(policy.v.python) THEN "TypeError"
    ELSE IF policy.v.python.v.safe_modules.type # "list" THEN "TypeError"
    ELSE ""

\* _validate_code_safety on the loaded python policy: the verdict, or the
\* TypeError of looping over dangerous_functions or dangerous_modules when
\* the file made one of them a value that is no list
ValidateLoaded(python, code) ==
    LET funcs_ok == python.v.dangerous_functions.type = "list"
        mods_ok == python.v.dangerous_modules.type = "list"
        cfg == [dangerous_functions |->
                    IF funcs_ok THEN python.v.dangerous_functions.v ELSE <<>>,
                dangerous_modules |->
                    IF mods_ok THEN python.v.dangerous_modules.v ELSE <<>>,
                allow_file_operations |-> Truthy(python.v.allow_file_operations)]
        lines == Split(code, "\n")
        scanned == {n \in 1..Len(lines) : ~SkippedLine(lines[n])}
        bad == {n \in scanned :
                   \/ ~funcs_ok
                   \/ FuncHits(cfg, Strip(lines[n])) = {} /\ ~mods_ok}
    IN  IF /\ bad # {}
           /\ \A n \in scanned : n < Min(bad) => CheckLine(cfg, lines[n], n) = <<>>
        THEN [raised |-> "TypeError", verdict |-> <<>>]
        ELSE [raised |-> "", verdict |-> _validate_code_safety(cfg, code)]

LoadedCodes == {"x = 1", "# c\n", "eval(1)\nimport os", "import os\nopen(f)"}

\* create_secure_python_tools() after the policy was loaded
ConstructPythonTools ==
    /\ val.kind = "load"
    /\ last.op = "none"
    /\ last' = [NoCall EXCEPT !.op = "__init__", !.raised = InitRaises(val.result)]
    /\ safe_globals' = IF InitRaises(val.result) = ""
                       THEN _create_safe_globals(config.python)
                       ELSE safe_globals
    /\ UNCHANGED <<config, safe_locals, python_log, shell_log, clock, val, validations>>
    /\ UNCHANGED <<in_flight, context, evals, remote, agent>>

\* a validator call on the constructed tool
ValidateAfterLoad(code) ==
    /\ last.op = "__init__" /\ last.raised = ""
    /\ \E r \in {ValidateLoaded(val.result.v.python, code)} :
           last' = [NoCall EXCEPT !.op = "_validate_code_safety", !.payload = code,
                                  !.validated = TRUE, !.verdict = r.verdict,
                                  !.raised = r.raised]
    /\ UNCHANGED <<config, safe_globals, safe_locals, python_log, shell_log, clock,
                   val, validations>>
    /\ UNCHANGED <<in_flight, context, evals, remote, agent>>

NextLoad ==
    \/ \E file \in UserFiles : LoadUserConfig(file)
    \/ ConstructPythonTools
    \/ \E code \in LoadedCodes : ValidateAfterLoad(code)

SpecLoad == InitLoad /\ [][NextLoad]_vars

(***************************************************************************)
(* Concurrent tool calls.  The tools keep no lock: calls run on several    *)
(* threads of the host and share the two log files.  A call validates and  *)
(* runs the engine, then _log_text_output builds the record               *)
(* (time.time()) and, in a later step, appends it through its own          *)
(* open(log_file, "a") handle; other threads run between the steps.        *)
(***************************************************************************)
MaxThreads == 2

Threads == 1..MaxThreads

ConcurrentCodes == {"x = 1", "eval('2+2')"}

ConcurrentCommands == {"ls", "rm -rf /"}

Idle == [pc |-> "idle", op |-> "none", payload |-> "", output |-> "", stamp |-> 0]
           @@ NoOutcome

InitConcurrent ==
    /\ config \in {c \in Configs : c.python = DefaultPython}
    /\ safe_globals = _create_safe_globals(config.python)
    /\ safe_locals = {}
    /\ validations = <<>>
    /\ python_log = <<>>
    /\ shell_log = <<>>
    /\ clock = 0
    /\ last = NoCall
    /\ val = NoValidation
    /\ in_flight = [t \in Threads |-> Idle]
    /\ context = NoContext
    /\ evals = NoRun
    /\ remote = NoRemote
    /\ agent = NoAgent

\* the handler of the call in flight on thread t
Handler(call, now, log_ok) ==
    IF call.op = "execute_python_code"
    THEN execute_python_code(config, now, call.payload, NoVariable, call.output, log_ok)
    ELSE run_shell_command(config, now, call.payload, DefaultTail, call.output, log_ok)

\* a thread enters a tool: audit check, validation and the engine's run.
\* A call that is not to be logged returns here.
BeginCall(t, op, payload, output) ==
    /\ in_flight[t].pc = "idle"
    /\ LET call == [Idle EXCEPT !.op = op, !.payload = payload, !.output = output]
           o == Handler(call, 0, TRUE)
       IN  /\ in_flight' = [in_flight EXCEPT ![t] =
                  IF o.log_written
                  THEN [call EXCEPT !.pc = "log"]
                  ELSE [pc |-> "done", op |-> op, payload |-> payload,
                        output |-> output, stamp |-> 0] @@ o]
           /\ IF op = "execute_python_code" /\ o.engine_called
              THEN \E bound \in EngineBinds(payload, output) :
                       safe_locals' = safe_locals \cup bound
              ELSE safe_locals' = safe_locals
    /\ UNCHANGED <<config, safe_globals, python_log, shell_log, clock, last, val,
                   validations>>
    /\ UNCHANGED <<context, evals, remote, agent>>

\* _log_text_output builds log_entry: the timestamp is read here
StampEntry(t) ==
    /\ in_flight[t].pc = "log"
    /\ clock' = clock + 1
    /\ in_flight' = [in_flight EXCEPT ![t].pc = "write", ![t].stamp = clock + 1]
    /\ UNCHANGED <<config, safe_globals, safe_locals, python_log, shell_log, last,
                   val, validations>>
    /\ UNCHANGED <<context, evals, remote, agent>>

\* _log_text_output opening the log file with mode "w"
AppendEntry_Truncate(t, log_ok) ==
    /\ in_flight[t].pc = "write"
    /\ LET call == in_flight[t]
           o == Handler(call, call.stamp, log_ok)
       IN  /\ in_flight' = [in_flight EXCEPT ![t] =
                  [pc |-> "done", op |-> call.op, payload |-> call.payload,
                   output |-> call.output, stamp |-> call.stamp] @@ o]
           /\ python_log' = IF call.op = "execute_python_code" /\ o.log_written
                            THEN <<o.log_entry>> ELSE python_log
           /\ shell_log' = IF call.op = "run_shell_command" /\ o.log_written
                           THEN <<o.log_entry>> ELSE shell_log
    /\ UNCHANGED <<config, safe_globals, safe_locals, clock, last, val, validations>>
    /\ UNCHANGED <<context, evals, remote, agent>>

\* _log_text_output: with open(log_file, "a") as f: f.write(f"{log_entry}\n"),
\* one append of the whole line to the log of the tool; a failure raises
\* out of the call
AppendEntry(t, log_ok) ==
    /\ in_flight[t].pc = "write"
    /\ LET call == in_flight[t]
           o == Handler(call, call.stamp, log_ok)
       IN  /\ in_flight' = [in_flight EXCEPT ![t] =
                  [pc |-> "done", op |-> call.op, payload |-> call.payload,
                   output |-> call.output, stamp |-> call.stamp] @@ o]
           /\ python_log' = IF call.op = "execute_python_code" /\ o.log_written
                            THEN Append(python_log, o.log_entry) ELSE python_log
           /\ shell_log' = IF call.op = "run_shell_command" /\ o.log_written
                           THEN Append(shell_log, o.log_entry) ELSE shell_log
    /\ UNCHANGED <<config, safe_globals, safe_locals, clock, last, val, validations>>
    /\ UNCHANGED <<context, evals, remote, agent>>

NextConcurrent ==
    \/ \E t \in Threads, code \in ConcurrentCodes :
           BeginCall(t, "execute_python_code", code, "10")
    \/ \E t \in Threads, command \in ConcurrentCommands :
           BeginCall(t, "run_shell_command", command, "10")
    \/ \E t \in Threads : StampEntry(t)
    \/ \E t \in Threads, log_ok \in BOOLEAN : AppendEntry(t, log_ok)

SpecConcurrent == InitConcurrent /\ [][NextConcurrent]_vars

(***************************************************************************)
(* One tool call on payloads at the edges of the handlers: around the      *)
(* length a record's excerpt keeps (200 characters), blank, not            *)
(* tokenizable, quoted.                                                    *)
(***************************************************************************)
\* the string s repeated n times
RECURSIVE Repeat(_, _)
Repeat(s, n) ==
    IF n = 0 THEN ""
    ELSE IF n % 2 = 1 THEN s \o Repeat(s, n - 1)
    ELSE LET half == Repeat(s, n \div 2) IN half \o half

\* code texts around the length of the excerpt a record keeps
EdgeCodes ==
    {"x = 1",
     "x = " \o Repeat("1", CodeExcerptLimit - 4),
     "x = " \o Repeat("1", CodeExcerptLimit - 3),
     "x = " \o Repeat("1", CodeExcerptLimit)}

EdgeCommands ==
    {"ls",
     "ls " \o Repeat("a", CodeExcerptLimit - 3),
     "ls " \o Repeat("a", CodeExcerptLimit - 2),
     "ls " \o Repeat("a", CodeExcerptLimit),
     "", "   ", "\t\n",
     "ls 'a", "ls \\", "echo \"x",
     "ls 'a b' c", "'ls' -l", "rm -rf /"}

\* the policies of Configs, and two whose lists both hold rm, or allow it
OneCallConfigs ==
    Configs \cup
    {WithPolicy(FALSE, TRUE, DefaultPython,
                [DefaultShell EXCEPT !.allowed_commands = l[1],
                                     !.blocked_commands = l[2]]) :
        l \in {<<<<"ls", "rm", "sudo">>, <<"rm", "ls">>>>,
               <<<<"rm", "sudo", "chmod">>, <<>>>>}}

InitOneCall ==
    /\ config \in OneCallConfigs
    /\ safe_globals = _create_safe_globals(config.python)
    /\ safe_locals = {}
    /\ validations = <<>>
    /\ python_log = <<>>
    /\ shell_log = <<>>
    /\ clock = 0
    /\ last = NoCall
    /\ val = NoValidation
    /\ AuxIdle

NextOneCall ==
    \/ /\ last.op = "none"
       /\ \E code \in EdgeCodes, v \in {NoVariable, "x"},
             output \in EngineOutputs, log_ok \in BOOLEAN :
              ExecutePythonCode(code, v, output, log_ok)
    \/ /\ last.op = "none"
       /\ \E command \in EdgeCommands, tail \in {DefaultTail, 5},
             output \in EngineOutputs, log_ok \in BOOLEAN :
              RunShellCommand(command, tail, output, log_ok)

SpecOneCall == InitOneCall /\ [][NextOneCall]_vars

(***************************************************************************)
(* ExecutionContext (tools/execution_context.py): a dataclass with         *)
(* create(), finish() and the property execution_time.  time.time() is     *)
(* the wall clock, which other programs may set.                           *)
(***************************************************************************)
MaxTime == 3

\* ExecutionContext.create(user_context) at wall-clock time now
create(uuid4, user_context, now) ==
    [work_dir |-> "",
     start_time |-> now,
     end_time |-> PyNone,
     execution_id |-> SubSeq(uuid4, 1, 8),
     user_context |-> IF Truthy(user_context) THEN user_context ELSE PyDict(<<>>)]

\* finish() also restarting the measurement
finish_Restart(self, now) ==
    [self EXCEPT !.end_time = PyInt(now), !.start_time = now]

\* self.finish() at wall-clock time now
finish(self, now) == [self EXCEPT !.end_time = PyInt(now)]

\* self.execution_time read at wall-clock time now
execution_time(self, now) ==
    LET end == IF Truthy(self.end_time) THEN self.end_time.v ELSE now
    IN  end - self.start_time

InitContext ==
    /\ config = _load_default_config
    /\ safe_globals = _create_safe_globals(config.python)
    /\ safe_locals = {}
    /\ validations = <<>>
    /\ python_log = <<>>
    /\ shell_log = <<>>
    /\ clock \in 1..MaxTime
    /\ last = NoCall
    /\ val = NoValidation
    /\ context = NoContext
    /\ in_flight = <<>>
    /\ evals = NoRun
    /\ remote = NoRemote
    /\ agent = NoAgent

ContextCreate(uuid4, user_context) ==
    /\ context.op = "none"
    /\ context' = [op |-> "create", result |-> 0] @@ create(uuid4, user_context, clock)
    /\ UNCHANGED <<config, safe_globals, safe_locals, python_log, shell_log, clock,
                   last, val, validations>>
    /\ UNCHANGED <<in_flight, evals, remote, agent>>

ContextFinish ==
    /\ context.op # "none"
    /\ context' = [finish(context, clock) EXCEPT !.op = "finish"]
    /\ UNCHANGED <<config, safe_globals, safe_locals, python_log, shell_log, clock,
                   last, val, validations>>
    /\ UNCHANGED <<in_flight, evals, remote, agent>>

ContextExecutionTime ==
    /\ context.op # "none"
    /\ context' = [context EXCEPT !.op = "execution_time",
                                  !.result = execution_time(context, clock)]
    /\ UNCHANGED <<config, safe_globals, safe_locals, python_log, shell_log, clock,
                   last, val, validations>>
    /\ UNCHANGED <<in_flight, evals, remote, agent>>

\* the wall clock moves, forward or, when it is set, backward
TimePasses(now) ==
    /\ now # clock
    /\ clock' = now
    /\ UNCHANGED <<config, safe_globals, safe_locals, python_log, shell_log,
                   last, val, validations>>
    /\ UNCHANGED <<in_flight, context, evals, remote, agent>>

NextContext ==
    \/ \E uuid4 \in {"3f2b8c1e-0d4a-4c6e-9b1a-7e5d2c8f0a11",
                     "a01de772-5b3c-4f0e-8d2a-1c9b6e4f7d22"},
          user_context \in {PyNone, PyDict(<<>>),
                            PyDict([k \in {"user"} |-> PyStr("ann")])} :
           ContextCreate(uuid4, user_context)
    \/ ContextFinish
    \/ ContextExecutionTime
    \/ \E now \in 1..MaxTime : TimePasses(now)

SpecContext == InitContext /\ [][NextContext]_vars

(***************************************************************************)
(* EvalRunner (evals/runner.py).  run_suite awaits run_case for each case  *)
(* in turn; the agent built by build_component is the environment: for     *)
(* each call of arun it returns a response or raises.                      *)
(***************************************************************************)
MaxCases == 2

EvalCase(input, expected, expected_contains) ==
    [input |-> input, expected |-> expected, expected_contains |-> expected_contains]

EvalCases ==
    {EvalCase("hello", PyStr("world"), PyNone),
     EvalCase("foo", PyNone, PyStr("bar")),
     EvalCase("hi", PyNone, PyNone)}

RECURSIVE SeqsUpTo(_, _)
\* the sequences over S of length at most n
SeqsUpTo(S, n) ==
    IF n = 0 THEN {<<>>}
    ELSE SeqsUpTo(S, n - 1)
         \cup {Append(s, x) : s \in {t \in SeqsUpTo(S, n - 1) : Len(t) = n - 1}, x \in S}

EvalSuites == {[name |-> "Test Suite", cases |-> cs] : cs \in SeqsUpTo(EvalCases, MaxCases)}

\* what agent.arun does: a response with .content (a str or None), an
\* object without .content, or an exception
AgentBehaviours ==
    {[kind |-> "content", content |-> PyStr(c)] : c \in {"world", "baz", "a bar b"}}
    \cup {[kind |-> "content", content |-> PyNone],
          [kind |-> "plain", text |-> "world"],
          [kind |-> "raise", message |-> "boom"]}

EvalResult(case, actual_output, success, error) ==
    [case |-> case, actual_output |-> actual_output, success |-> success,
     error |-> error]

\* run_case counting a raising agent call as a success
run_case_ErrorPasses(case, behaviour) ==
    IF behaviour.kind = "raise"
    THEN EvalResult(case, "", TRUE, PyStr(behaviour.message))
    ELSE EvalResult(case, "", FALSE, PyNone)

\* EvalRunner.run_case(agent, case), the agent behaving as given
run_case(case, behaviour) ==
    IF behaviour.kind = "raise"
    THEN EvalResult(case, "", FALSE, PyStr(behaviour.message))
    ELSE LET actual == IF behaviour.kind = "content" THEN behaviour.content
                       ELSE PyStr(behaviour.text)
         IN  IF actual.type # "str"
             THEN \* `in` on None raises TypeError, and so does the
                  \* construction of an EvalResult with actual_output None
                  IF Truthy(case.expected_contains)
                  THEN EvalResult(case, "", FALSE,
                                  PyStr("argument of type 'NoneType' is not iterable"))
                  ELSE EvalResult(case, "", FALSE, PyStr("1 validation error for EvalResult"))
             ELSE EvalResult(case, actual.v,
                     /\ ~(Truthy(case.expected) /\ case.expected # actual)
                     /\ ~(/\ Truthy(case.expected_contains)
                          /\ ~Contains(actual.v, case.expected_contains.v)),
                     PyNone)

\* the EvalReport run_suite builds from the results
EvalReport(suite_name, results) ==
    LET passed == Cardinality({i \in 1..Len(results) : results[i].success})
    IN  [suite_name |-> suite_name, results |-> results, total |-> Len(results),
         passed |-> passed, failed |-> Len(results) - passed]

InitEvals ==
    /\ config = _load_default_config
    /\ safe_globals = _create_safe_globals(config.python)
    /\ safe_locals = {}
    /\ validations = <<>>
    /\ python_log = <<>>
    /\ shell_log = <<>>
    /\ clock = 0
    /\ last = NoCall
    /\ val = NoValidation
    /\ evals = NoRun
    /\ in_flight = <<>>
    /\ context = NoContext
    /\ remote = NoRemote
    /\ agent = NoAgent

\* run_suite is called: the component is built and results = []
StartSuite(suite) ==
    /\ evals.pc = "idle"
    /\ evals' = [pc |-> "loop", suite |-> suite, results |-> <<>>,
                 agent_calls |-> <<>>, report |-> <<>>]
    /\ UNCHANGED <<config, safe_globals, safe_locals, python_log, shell_log, clock,
                   last, val, validations>>
    /\ UNCHANGED <<in_flight, context, remote, agent>>

\* one turn of the loop: result = await self.run_case(component, case)
RunCase(behaviour) ==
    /\ evals.pc = "loop"
    /\ Len(evals.results) < Len(evals.suite.cases)
    /\ LET case == evals.suite.cases[Len(evals.results) + 1]
       IN  evals' = [evals EXCEPT
                        !.results = Append(@, run_case(case, behaviour)),
                        !.agent_calls = Append(@, [input |-> case.input,
                                                   behaviour |-> behaviour])]
    /\ UNCHANGED <<config, safe_globals, safe_locals, python_log, shell_log, clock,
                   last, val, validations>>
    /\ UNCHANGED <<in_flight, context, remote, agent>>

\* the loop is over: the report is built and returned
ReturnReport ==
    /\ evals.pc = "loop"
    /\ Len(evals.results) = Len(evals.suite.cases)
    /\ evals' = [evals EXCEPT !.pc = "done",
                              !.report = EvalReport(evals.suite.name, evals.results)]
    /\ UNCHANGED <<config, safe_globals, safe_locals, python_log, shell_log, clock,
                   last, val, validations>>
    /\ UNCHANGED <<in_flight, context, remote, agent>>

NextEvals ==
    \/ \E suite \in EvalSuites : StartSuite(suite)
    \/ \E behaviour \in AgentBehaviours : RunCase(behaviour)
    \/ ReturnReport

SpecEvals == InitEvals /\ [][NextEvals]_vars

(***************************************************************************)
(* RemoteAgent (os/remote_agent.py): arun and acontinue_run forward a      *)
(* call to the AgentOSClient given at construction.  The client is the     *)
(* environment; the model keeps the method called and its keyword          *)
(* arguments.  An argument is a typed value, None included.                *)
(***************************************************************************)
SessionIds == {PyNone, PyStr("s1"), PyStr("")}

UserIds == {PyNone, PyStr("u1"), PyStr("")}

\* RemoteAgent(client=..., agent_id=..., session_id=..., user_id=...)
RemoteAgent(agent_id, session_id, user_id) ==
    [_agent_id |-> agent_id, _session_id |-> session_id, _user_id |-> user_id,
     _headers |-> PyNone]

\* x if x is not None else y
IfNotNone(x, y) == IF x.type # "none" THEN x ELSE y

\* x or y
Or(x, y) == IF Truthy(x) THEN x ELSE y

\* RemoteAgent.arun: the client method called and its keyword arguments
\* (steps is stream_intermediate_steps)
arun(self, message, stream, steps, session_id, user_id) ==
    LET effective_session_id == IfNotNone(session_id, self._session_id)
        effective_user_id == IfNotNone(user_id, self._user_id)
    IN  IF stream
        THEN [method |-> "run_agent_stream",
              agent_id |-> self._agent_id, message |-> message,
              session_id |-> effective_session_id, user_id |-> effective_user_id,
              headers |-> self._headers, stream_events |-> steps]
        ELSE [method |-> "run_agent",
              agent_id |-> self._agent_id, message |-> message,
              session_id |-> effective_session_id, user_id |-> effective_user_id,
              headers |-> self._headers]

\* acontinue_run taking session and user from the construction only
acontinue_run_NoOverride(self, run_id, updated_tools, stream, steps, session_id, user_id) ==
    [method |-> IF stream THEN "continue_agent_run_stream" ELSE "continue_agent_run",
     agent_id |-> self._agent_id, run_id |-> Or(run_id, PyStr("")),
     tools |-> Or(updated_tools, PyList(<<>>)),
     session_id |-> self._session_id, user_id |-> self._user_id,
     headers |-> self._headers]

\* RemoteAgent.acontinue_run: the client method called and its keyword
\* arguments
acontinue_run(self, run_id, updated_tools, stream, steps, session_id, user_id) ==
    LET effective_run_id == Or(run_id, PyStr(""))
        tools == Or(updated_tools, PyList(<<>>))
        effective_session_id == IfNotNone(session_id, self._session_id)
        effective_user_id == IfNotNone(user_id, self._user_id)
    IN  IF stream
        THEN [method |-> "continue_agent_run_stream",
              agent_id |-> self._agent_id, run_id |-> effective_run_id,
              tools |-> tools,
              session_id |-> effective_session_id, user_id |-> effective_user_id,
              headers |-> self._headers, stream_events |-> steps]
        ELSE [method |-> "continue_agent_run",
              agent_id |-> self._agent_id, run_id |-> effective_run_id,
              tools |-> tools,
              session_id |-> effective_session_id, user_id |-> effective_user_id,
              headers |-> self._headers]

InitRemote ==
    /\ config = _load_default_config
    /\ safe_globals = _create_safe_globals(config.python)
    /\ safe_locals = {}
    /\ validations = <<>>
    /\ python_log = <<>>
    /\ shell_log = <<>>
    /\ clock = 0
    /\ last = NoCall
    /\ val = NoValidation
    /\ \E session_id \in {PyNone, PyStr("s0")}, user_id \in {PyNone, PyStr("u0")} :
           remote = [op |-> "__init__",
                     given |-> [agent_id |-> "a1", session_id |-> session_id,
                                user_id |-> user_id],
                     self |-> RemoteAgent("a1", session_id, user_id)]
    /\ in_flight = <<>>
    /\ context = NoContext
    /\ evals = NoRun
    /\ agent = NoAgent

Arun(message, stream, steps, session_id, user_id) ==
    /\ remote.op # "none"
    /\ remote' = [op |-> "arun", given |-> remote.given, self |-> remote.self,
                  request |-> [stream |-> stream, session_id |-> session_id,
                               user_id |-> user_id, message |-> message],
                  sent |-> arun(remote.self, message, stream, steps, session_id,
                                user_id)]
    /\ UNCHANGED <<config, safe_globals, safe_locals, python_log, shell_log, clock,
                   last, val, validations>>
    /\ UNCHANGED <<in_flight, context, evals, agent>>

AcontinueRun(run_id, updated_tools, stream, steps, session_id, user_id) ==
    /\ remote.op # "none"
    /\ remote' = [op |-> "acontinue_run", given |-> remote.given, self |-> remote.self,
                  request |-> [stream |-> stream, session_id |-> session_id,
                               user_id |-> user_id, run_id |-> run_id,
                               updated_tools |-> updated_tools],
                  sent |-> acontinue_run(remote.self, run_id, updated_tools, stream,
                                         steps, session_id, user_id)]
    /\ UNCHANGED <<config, safe_globals, safe_locals, python_log, shell_log, clock,
                   last, val, validations>>
    /\ UNCHANGED <<in_flight, context, evals, agent>>

NextRemote ==
    \/ \E stream \in BOOLEAN, steps \in BOOLEAN,
          session_id \in SessionIds, user_id \in UserIds :
           Arun("hi", stream, steps, session_id, user_id)
    \/ \E run_id \in {PyNone, PyStr("r1")},
          updated_tools \in {PyNone, PyList(<<>>), PyList(<<"call-1">>)},
          stream \in BOOLEAN,
          steps \in BOOLEAN, session_id \in SessionIds, user_id \in UserIds :
           AcontinueRun(run_id, updated_tools, stream, steps, session_id, user_id)

SpecRemote == InitRemote /\ [][NextRemote]_vars

(***************************************************************************)
(* The context guard (hooks/context_guard.py).  The agent or team is       *)
(* built with pre_hooks=[ensure_context_within_window] and                 *)
(* post_hooks=[restore_context_settings]; each run calls the pre-hook,     *)
(* runs the model and calls the post-hook.  Runs of one agent may overlap. *)
(* A run input is modelled by the length of its text.                      *)
(***************************************************************************)
MaxRuns == 2

DEFAULT_CONTEXT_WINDOW == 64000
DEFAULT_MARGIN == 2048
DEFAULT_MAX_OUTPUT == 2048

\* the attribute is not set on the object
Absent == [type |-> "absent", v |-> <<>>]

\* _estimate_tokens(text) for a text of the given length, by the character
\* heuristic (tiktoken not installed)
_estimate_tokens(length) == IF length = 0 THEN 0 ELSE length \div 4

\* len(_compress_input(text, max_chars)) for a text of the given length
_compress_input(length, max_chars) ==
    IF length <= max_chars THEN length
    ELSE LET half == max_chars \div 2
             head == Min({half, length})
             tail == Min({half, length})
         IN  Len("[Input compressed to fit context]\n") + head + Len("\n...\n") + tail

\* ensure_context_within_window(agent, run_input): the agent and the run
\* input as the hook leaves them
ensure_context_within_window(a, run_input, context_window, margin) ==
    LET budget == context_window - DEFAULT_MAX_OUTPUT - margin
        input_tokens == _estimate_tokens(run_input)
        saved == [a EXCEPT !._ctx_guard_prev =
                     PyDict([k \in {"num_history_runs"} |-> PyInt(a.num_history_runs)])]
        history_runs == saved.num_history_runs
        reduced == IF history_runs > 0
                   THEN [saved EXCEPT !.num_history_runs =
                            LET target == Min({history_runs - 1, 2})
                            IN  IF target < 0 THEN 0 ELSE target]
                   ELSE saved
        max_input_tokens == (7 * budget) \div 10
    IN  IF budget <= 0 THEN [agent |-> a, run_input |-> run_input]
        ELSE IF 10 * input_tokens <= 6 * budget
        THEN [agent |-> saved, run_input |-> run_input]
        ELSE IF input_tokens > max_input_tokens
        THEN [agent |-> reduced,
              run_input |-> _compress_input(run_input, max_input_tokens * 4)]
        ELSE [agent |-> reduced, run_input |-> run_input]

\* restore_context_settings(agent): the agent as the hook leaves it
restore_context_settings(a) ==
    LET prev == a._ctx_guard_prev
    IN  IF prev.type = "dict"
        THEN [a EXCEPT !.num_history_runs = prev.v["num_history_runs"].v,
                       !._ctx_guard_prev = Absent]
        ELSE a

\* the lengths of run inputs: small, over 60% of the budget, over 70%
RunInputs == {400, 144000, 200000}

InitGuard ==
    /\ config = _load_default_config
    /\ safe_globals = _create_safe_globals(config.python)
    /\ safe_locals = {}
    /\ validations = <<>>
    /\ python_log = <<>>
    /\ shell_log = <<>>
    /\ clock = 0
    /\ last = NoCall
    /\ val = NoValidation
    /\ \E n \in {3, 1, 0}, window \in {DEFAULT_CONTEXT_WINDOW, 4096} :
           agent = [num_history_runs |-> n, _ctx_guard_prev |-> Absent,
                    built_with |-> n, context_window |-> window,
                    margin |-> DEFAULT_MARGIN,
                    runs |-> [r \in 1..MaxRuns |-> [pc |-> "idle", run_input |-> 0]]]
    /\ in_flight = <<>>
    /\ context = NoContext
    /\ evals = NoRun
    /\ remote = NoRemote

\* run r starts: its pre-hook runs
PreHook(r, run_input) ==
    /\ agent.runs[r].pc = "idle"
    /\ LET a == [num_history_runs |-> agent.num_history_runs,
                 _ctx_guard_prev |-> agent._ctx_guard_prev]
           out == ensure_context_within_window(a, run_input, agent.context_window,
                                               agent.margin)
       IN  agent' = [agent EXCEPT
                        !.num_history_runs = out.agent.num_history_runs,
                        !._ctx_guard_prev = out.agent._ctx_guard_prev,
                        !.runs[r] = [pc |-> "running", run_input |-> out.run_input]]
    /\ UNCHANGED <<config, safe_globals, safe_locals, python_log, shell_log, clock,
                   last, val, validations>>
    /\ UNCHANGED <<in_flight, context, evals, remote>>

\* run r ends: its post-hook runs
PostHook(r) ==
    /\ agent.runs[r].pc = "running"
    /\ LET a == [num_history_runs |-> agent.num_history_runs,
                 _ctx_guard_prev |-> agent._ctx_guard_prev]
           out == restore_context_settings(a)
       IN  agent' = [agent EXCEPT
                        !.num_history_runs = out.num_history_runs,
                        !._ctx_guard_prev = out._ctx_guard_prev,
                        !.runs[r].pc = "done"]
    /\ UNCHANGED <<config, safe_globals, safe_locals, python_log, shell_log, clock,
                   last, val, validations>>
    /\ UNCHANGED <<in_flight, context, evals, remote>>

NextGuard ==
    \/ \E r \in 1..MaxRuns, run_input \in RunInputs : PreHook(r, run_input)
    \/ \E r \in 1..MaxRuns : PostHook(r)

SpecGuard == InitGuard /\ [][NextGuard]_vars

(***************************************************************************)
(* Properties of the tool calls (specification Spec).                      *)
(***************************************************************************)
AuditMode == config.execution.audit_mode
LogExecutions == config.execution.log_executions
Called == last.op # "none"

\* what the validator of the last call's tool says of the last payload
VerdictOfLast ==
    IF last.op = "execute_python_code"
    THEN _validate_code_safety(config.python, last.payload)
    ELSE _validate_command_safety(config.shell, last.payload)

\* C1: the engine is invoked for a payload only if audit_mode is false and
\* the validator of the tool returned safe for that same payload; the engine
\* gets the code itself, or the tokens of the command itself.
C1_EngineOnlyForValidatedPayload ==
    last.engine_called =>
        /\ ~AuditMode
        /\ VerdictOfLast[1]
        /\ last.op = "execute_python_code" => last.engine_arg = last.payload
        /\ last.op = "run_shell_command" =>
               last.engine_arg = shlex_split(last.payload).args

C1_Witness ==
    /\ last.op = "run_shell_command" /\ last.payload = "cat a | grep b"
    /\ last.engine_called
    /\ last.engine_arg = <<"cat", "a", "|", "grep", "b">>

\* C2: in audit mode every call, also one with a payload the validator
\* would reject, returns a string that starts with "[AUDIT MODE]" and ends
\* with the payload; the validator and the engine are not run, no audit
\* record is written and the namespace is the one built at construction.
C2_AuditModeOnlyEchoes ==
    (AuditMode /\ Called) =>
        /\ last.raised = ""
        /\ StartsWith(last.ret, "[AUDIT MODE]")
        /\ EndsWith(last.ret, last.payload)
        /\ ~last.validated
        /\ ~last.engine_called
        /\ ~last.log_written /\ ~last.log_failed
        /\ python_log = <<>> /\ shell_log = <<>>
        /\ safe_globals = _create_safe_globals(config.python)

C2_Witness ==
    /\ AuditMode
    /\ last.op = "run_shell_command" /\ last.payload = "rm -rf /"
    /\ ~_validate_command_safety(config.shell, last.payload)[1]
    /\ last.ret = "[AUDIT MODE] Would execute shell command: rm -rf /"

\* C3: with audit_mode false, a payload the validator rejects with reason R
\* makes the call return "Error: Security validation failed: " followed by R,
\* with no exception and no engine call; the call that follows a rejected
\* call on the same tool is processed as any other: rejected the same way,
\* or handed to the engine.
C3_RejectionIsReturned ==
    /\ (Called /\ ~AuditMode /\ ~VerdictOfLast[1]) =>
           /\ last.raised = ""
           /\ last.ret = "Error: Security validation failed: " \o VerdictOfLast[2]
           /\ ~last.engine_called
    /\ (last.after_reject /\ VerdictOfLast[1]) => last.engine_called

C3_Witness ==
    /\ last.after_reject
    /\ last.op = "execute_python_code"
    /\ last.engine_called /\ last.raised = "" /\ last.ret = "10"

\* C4: no call lets an exception escape, and a call that did not get to run
\* the payload returns a string beginning with "Error: " or "[AUDIT MODE]".
C4_NeverRaises ==
    Called =>
        /\ last.raised = ""
        /\ ~last.engine_called =>
               \/ StartsWith(last.ret, "Error: ")
               \/ StartsWith(last.ret, "[AUDIT MODE]")

\* C5: when writing the audit record fails after the engine has produced
\* its output, the call raises nothing and returns the engine's output.
C5_LogFailureDiscarded ==
    last.log_failed => (last.raised = "" /\ last.ret = last.engine_out)

\* C6 as claimed: with audit_mode false and log_executions true every call,
\* executed or rejected, appends exactly one record to the log of its kind;
\* with log_executions false no record is appended.
C6_OneRecordPerCall ==
    [][clock' = clock + 1 =>
         LET grown == IF last'.op = "execute_python_code"
                      THEN Len(python_log') - Len(python_log)
                      ELSE Len(shell_log') - Len(shell_log)
         IN  /\ (~AuditMode /\ LogExecutions) => grown = 1
             /\ ~LogExecutions => grown = 0]_vars

\* C6 as amended: a call appends one record to the log of its kind, of that
\* kind, exactly when audit_mode is false, log_executions is true, the
\* validator accepts the payload and the write of the record succeeds;
\* every other call (a rejected one, or any call with log_executions false)
\* leaves both logs as they were, and no call touches the other log.
C6_OneRecordPerLoggedExecution ==
    [][clock' = clock + 1 =>
         LET python == last'.op = "execute_python_code"
             mine == IF python THEN python_log ELSE shell_log
             mine_after == IF python THEN python_log' ELSE shell_log'
             other == IF python THEN shell_log ELSE python_log
             other_after == IF python THEN shell_log' ELSE python_log'
             accepted == IF python
                         THEN _validate_code_safety(config.python, last'.payload)[1]
                         ELSE _validate_command_safety(config.shell, last'.payload)[1]
         IN  /\ other_after = other
             /\ IF ~AuditMode /\ LogExecutions /\ accepted /\ ~last'.log_failed
                THEN /\ Len(mine_after) = Len(mine) + 1
                     /\ SubSeq(mine_after, 1, Len(mine)) = mine
                     /\ mine_after[Len(mine_after)].type =
                            (IF python THEN "python" ELSE "shell")
                ELSE mine_after = mine]_vars

C6_Witness ==
    /\ ~AuditMode /\ LogExecutions
    /\ Len(python_log) = 1 /\ python_log[1].type = "python"
    /\ clock = 2
    /\ last.op = "execute_python_code" /\ last.validated /\ ~last.verdict[1]

\* C7: with audit_mode false and an accepted payload, the call returns
\* exactly the string the engine returned, with log_executions true or false.
C7_ReturnsEngineOutput ==
    (Called /\ ~AuditMode /\ VerdictOfLast[1]) =>
        (last.raised = "" /\ last.ret = last.engine_out)

\* the last call was execute_python_code("import subprocess") under the
\* default python policy, audit mode off
ImportSubprocessCall ==
    /\ last.op = "execute_python_code" /\ last.payload = "import subprocess"
    /\ config.python = DefaultPython
    /\ ~AuditMode

\* C15 as claimed: under the default policy with audit_mode false,
\* execute_python_code("import subprocess") returns an error string that
\* contains "not allowed".
C15_ImportSubprocessNotAllowed ==
    ImportSubprocessCall =>
        /\ last.raised = ""
        /\ StartsWith(last.ret, "Error")
        /\ Contains(last.ret, "not allowed")

\* C15 as amended: under the default policy with audit_mode false,
\* execute_python_code("import subprocess") runs no code and returns the
\* error string "Error: Security validation failed: Dangerous module
\* 'subprocess' import found at line 1".
C15_ImportSubprocessRejected ==
    ImportSubprocessCall =>
        /\ last.raised = ""
        /\ ~last.engine_called
        /\ last.ret = "Error: Security validation failed: "
                          \o "Dangerous module 'subprocess' import found at line 1"

C15_Witness ==
    /\ ImportSubprocessCall
    /\ last.validated /\ ~last.verdict[1]
    /\ ~Contains(last.ret, "not allowed")

\* C20: the tool keeps no state from one call to the next but the policy
\* and the audit logs: every run of code starts in a namespace built for
\* that call, in which no name bound by the code of an earlier call exists.
C20_NamespacePerCall ==
    /\ safe_globals = _create_safe_globals(config.python)
    /\ (last.op = "execute_python_code" /\ last.engine_called) =>
           last.locals_seen = {}

LinesWith(code, sub) ==
    {n \in 1..Len(Split(code, "\n")) : Contains(Split(code, "\n")[n], sub)}

FunctionReason(name, n) ==
    "Dangerous function '" \o name \o "' found at line " \o ToString(n)

\* C8 as claimed: for every name of dangerous_functions with name + "(" in
\* the code, the verdict is unsafe and the reason cites that name and the
\* 1-based number of a line where name + "(" occurs.
C8_EveryDangerousCallCited ==
    val.kind = "python" =>
        \A i \in 1..Len(config.python.dangerous_functions) :
            LET name == config.python.dangerous_functions[i]
            IN  Contains(val.input, name \o "(") =>
                    /\ ~val.result[1]
                    /\ \E n \in LinesWith(val.input, name \o "(") :
                           val.result[2] = FunctionReason(name, n)

\* C8 as amended: when a line that is not skipped (not blank, not a comment)
\* contains name + "(" for a name of dangerous_functions, the verdict is
\* unsafe; when moreover no earlier non-skipped line has a dangerous import
\* or a disallowed file operation, the reason cites the first such line by
\* its 1-based number and, of the dangerous functions called on that line,
\* the one listed first in dangerous_functions.
C8_FirstDangerousCallCited ==
    val.kind = "python" =>
        LET lines == Split(val.input, "\n")
            scanned == {n \in 1..Len(lines) : ~SkippedLine(lines[n])}
            calls == {n \in scanned : FuncHits(config.python, lines[n]) # {}}
            others == {n \in scanned :
                          \/ ModuleHits(config.python, lines[n]) # {}
                          \/ FileOpHit(config.python, lines[n])}
        IN  calls # {} =>
                /\ ~val.result[1]
                /\ (\A n \in others : n >= Min(calls)) =>
                       val.result[2] =
                           FunctionReason(
                               config.python.dangerous_functions[
                                   Min(FuncHits(config.python, lines[Min(calls)]))],
                               Min(calls))

C8_Witness ==
    /\ val.kind = "python"
    /\ val.input = "# eval(1)\nx = 1\neval(x)"
    /\ val.result = <<FALSE, "Dangerous function 'eval' found at line 3">>

\* C9: a command whose first token is not in allowed_commands, or is in
\* blocked_commands (also when it is in both lists), is unsafe whatever the
\* rest of the string and the three operator flags are.
C9_FirstTokenGate ==
    val.kind = "shell" =>
        LET parsed == shlex_split(val.input)
        IN  (/\ parsed.ok
             /\ parsed.args # <<>>
             /\ \/ ~InList(parsed.args[1], config.shell.allowed_commands)
                \/ InList(parsed.args[1], config.shell.blocked_commands))
            => ~val.result[1]

C9_Witness ==
    /\ val.kind = "shell"
    /\ val.input = "ls"
    /\ InList("ls", config.shell.allowed_commands)
    /\ InList("ls", config.shell.blocked_commands)
    /\ config.shell.allow_pipes /\ config.shell.allow_redirection
    /\ config.shell.allow_background
    /\ val.result = <<FALSE, "Command 'ls' is blocked">>

\* the raw command matches one of the hard-ban patterns, letter case ignored
MatchesHardBan(command) ==
    \E k \in 1..Len(dangerous_patterns) :
        \E i \in 1..(Len(command) + 1) :
            MatchFrom(Folded(dangerous_patterns[k].items), 1, Lower(command), i)

\* C10: under every policy a command whose raw string matches a hard-ban
\* pattern, case-insensitively, is rejected.
C10_HardBanRejected ==
    (val.kind = "shell" /\ MatchesHardBan(val.input)) => ~val.result[1]

C10_Witness ==
    /\ val.kind = "shell"
    /\ val.input = "rm -RF /"
    /\ InList("rm", config.shell.allowed_commands)
    /\ ~InList("rm", config.shell.blocked_commands)
    /\ config.shell.allow_pipes /\ config.shell.allow_redirection
    /\ config.shell.allow_background
    /\ val.result = <<FALSE, "Dangerous command pattern detected: rm\\s+-rf\\s+/">>

\* the operator classes of the raw command that the policy leaves disabled
DisabledOperators(cfg, command) ==
    {op \in {"pipes", "redirection", "background"} :
        \/ op = "pipes" /\ Contains(command, "|") /\ ~cfg.allow_pipes
        \/ op = "redirection" /\ ~cfg.allow_redirection
               /\ (Contains(command, ">") \/ Contains(command, "<"))
        \/ op = "background" /\ Contains(command, "&") /\ ~cfg.allow_background}

\* C11: a command that tokenizes, whose first token is allowed and not
\* blocked and that matches no hard-ban pattern, is accepted exactly when
\* every operator class present in the raw string is enabled ("|" needs
\* allow_pipes, ">" or "<" allow_redirection, "&" allow_background);
\* "cat a | grep b" is accepted iff allow_pipes, and "ls > out.txt" is
\* rejected under the default policy.
C11_OperatorsNeedTheirFlag ==
    val.kind = "shell" =>
        LET parsed == shlex_split(val.input)
        IN  /\ (/\ parsed.ok
                /\ parsed.args # <<>>
                /\ InList(parsed.args[1], config.shell.allowed_commands)
                /\ ~InList(parsed.args[1], config.shell.blocked_commands)
                /\ ~MatchesHardBan(val.input))
               => (val.result[1] <=> DisabledOperators(config.shell, val.input) = {})
            /\ (/\ val.input = "cat a | grep b"
                /\ InList("cat", config.shell.allowed_commands)
                /\ ~InList("cat", config.shell.blocked_commands))
               => (val.result[1] <=> config.shell.allow_pipes)
            /\ (val.input = "ls > out.txt" /\ config.shell = DefaultShell)
               => val.result = <<FALSE, "Redirection operations are not allowed">>

C11_Witness ==
    /\ val.kind = "shell"
    /\ val.input = "ls | cat > f &"
    /\ config.shell.allow_pipes /\ config.shell.allow_redirection
    /\ config.shell.allow_background
    /\ val.result = <<TRUE, "Command validation passed">>

\* the dangerous modules, by index, that the line imports: the line holds
\* "import X", "from X" or "import X as"
ImportedDangerous(line) ==
    {i \in 1..Len(config.python.dangerous_modules) :
        \E pattern \in {"import " \o config.python.dangerous_modules[i],
                         "from " \o config.python.dangerous_modules[i],
                         "import " \o config.python.dangerous_modules[i] \o " as"} :
            Contains(line, pattern)}

ModuleReason(name, n) ==
    "Dangerous module '" \o name \o "' import found at line " \o ToString(n)

\* C13 as claimed: when non-skipped lines hold "import X", "from X" or
\* "import X as" for X in dangerous_modules, the verdict is unsafe and the
\* reason cites the first such line by its 1-based number and the first
\* matching module of that line.
C13_DangerousImportCited ==
    val.kind = "python" =>
        LET lines == Split(val.input, "\n")
            imports == {n \in 1..Len(lines) :
                           ~SkippedLine(lines[n]) /\ ImportedDangerous(lines[n]) # {}}
        IN  imports # {} =>
                val.result =
                    <<FALSE,
                      ModuleReason(config.python.dangerous_modules[
                                       Min(ImportedDangerous(lines[Min(imports)]))],
                                   Min(imports))>>

\* C13 as amended: when a non-skipped line holds "import X", "from X" or
\* "import X as" for X in dangerous_modules, the verdict is unsafe; when
\* moreover neither that line nor an earlier non-skipped line calls a
\* dangerous function, and no earlier non-skipped line has a disallowed
\* file operation, the reason cites the first such line by its 1-based
\* number and, of the modules matching on it, the one listed first in
\* dangerous_modules.  "import subprocess" is rejected under the default
\* policy, citing subprocess at line 1.
C13_FirstDangerousImportCited ==
    val.kind = "python" =>
        LET lines == Split(val.input, "\n")
            scanned == {n \in 1..Len(lines) : ~SkippedLine(lines[n])}
            imports == {n \in scanned : ImportedDangerous(lines[n]) # {}}
            calls == {n \in scanned :
                         \E i \in 1..Len(config.python.dangerous_functions) :
                             Contains(lines[n], config.python.dangerous_functions[i] \o "(")}
            fileops == {n \in scanned :
                           /\ ~config.python.allow_file_operations
                           /\ \E op \in {"open(", "file(", "with open"} :
                                  Contains(lines[n], op)}
        IN  /\ imports # {} =>
                /\ ~val.result[1]
                /\ ((\A n \in calls : n > Min(imports))
                    /\ (\A n \in fileops : n >= Min(imports)))
                   => val.result[2] =
                          ModuleReason(config.python.dangerous_modules[
                                           Min(ImportedDangerous(lines[Min(imports)]))],
                                       Min(imports))
            /\ (val.input = "import subprocess" /\ config.python = DefaultPython)
               => val.result = <<FALSE, ModuleReason("subprocess", 1)>>

C13_Witness ==
    /\ val.kind = "python"
    /\ val.input = "x = 1\n# import sys\n  from subprocess import run"
    /\ config.python = DefaultPython
    /\ val.result = <<FALSE, "Dangerous module 'subprocess' import found at line 3">>

\* the line holds one of the three file-operation substrings
FileOperation(line) ==
    \E op \in {"open(", "file(", "with open"} : Contains(line, op)

FileReason(n) == "File operation not allowed at line " \o ToString(n)

\* C14 as claimed: with allow_file_operations false, code with a line that
\* holds "open(", "file(" or "with open" is rejected and the reason cites a
\* disallowed file operation at that line; under the default policy
\* "open('/etc/hosts').read()" is rejected with that reason for line 1.
C14_FileOperationCited ==
    (val.kind = "python" /\ ~config.python.allow_file_operations) =>
        LET lines == Split(val.input, "\n")
            fileops == {n \in 1..Len(lines) : FileOperation(lines[n])}
        IN  fileops # {} =>
                /\ ~val.result[1]
                /\ \E n \in fileops : val.result[2] = FileReason(n)

\* C14 as amended: with allow_file_operations false, code with a
\* non-skipped line that holds "open(", "file(" or "with open" is rejected;
\* the reason is "File operation not allowed at line N" for the first such
\* line when neither it nor an earlier non-skipped line calls a dangerous
\* function or imports a dangerous module.  Under the default policy, where
\* open is a dangerous function, "open('/etc/hosts').read()" is rejected
\* with "Dangerous function 'open' found at line 1".
C14_FirstFileOperationCited ==
    val.kind = "python" =>
        LET lines == Split(val.input, "\n")
            scanned == {n \in 1..Len(lines) : ~SkippedLine(lines[n])}
            fileops == {n \in scanned : FileOperation(lines[n])}
            calls == {n \in scanned :
                         \E i \in 1..Len(config.python.dangerous_functions) :
                             Contains(lines[n], config.python.dangerous_functions[i] \o "(")}
            imports == {n \in scanned : ImportedDangerous(lines[n]) # {}}
        IN  /\ (~config.python.allow_file_operations /\ fileops # {}) =>
                /\ ~val.result[1]
                /\ (\A n \in calls \cup imports : n > Min(fileops))
                   => val.result[2] = FileReason(Min(fileops))
            /\ (val.input = "open('/etc/hosts').read()" /\ config.python = DefaultPython)
               => val.result = <<FALSE, FunctionReason("open", 1)>>

C14_Witness ==
    /\ val.kind = "python"
    /\ val.input = "f = 1\nwith open\nopen(f)"
    /\ ~config.python.allow_file_operations
    /\ config.python.dangerous_functions = <<>>
    /\ val.result = <<FALSE, "File operation not allowed at line 2">>

(***************************************************************************)
(* Properties of the restricted namespace (specification SpecImport).      *)
(***************************************************************************)
NotAllowed(name) == "Module '" \o name \o "' not allowed"

\* C12: under every policy a module name that is in both safe_modules and
\* dangerous_modules is blocked: the import hook refuses it, and it is not
\* bound as a pre-imported name of the namespace.
C12_DangerousWinsOverSafe ==
    (/\ InList(val.input, config.python.safe_modules)
     /\ InList(val.input, config.python.dangerous_modules))
    => /\ val.kind = "import" => val.result = NotAllowed(val.input)
       /\ val.kind = "lookup" => val.result = FALSE

\* the top-level component of a dotted module name: the text before the
\* first dot, or the whole name when it has no dot
TopLevel(name) ==
    LET dots == {i \in 1..Len(name) : CharAt(name, i) = "."}
    IN  IF dots = {} THEN name ELSE SubSeq(name, 1, Min(dots) - 1)

\* C16: the import hook hands the request to the host import machinery
\* (which imports the module or reports it missing) if and only if the
\* top-level component of the requested name is in safe_modules; for every
\* other name it raises ImportError "Module '<name>' not allowed".
C16_HookDelegatesIffSafe ==
    val.kind = "import" =>
        IF InList(TopLevel(val.input), config.python.safe_modules)
        THEN val.result \in {"ok", "No module named '" \o TopLevel(val.input) \o "'"}
        ELSE val.result = NotAllowed(val.input)

C16_Witness ==
    /\ val.kind = "import"
    /\ val.input = "os.path"
    /\ InList("os", config.python.safe_modules)
    /\ ~InList("os.path", config.python.safe_modules)
    /\ val.result = "ok"

(***************************************************************************)
(* Properties of loading the policy (specification SpecLoad).              *)
(***************************************************************************)
RECURSIVE LeafPaths(_)
\* the key paths from a typed value down to its values that are not dicts
LeafPaths(x) ==
    IF IsDict(x)
    THEN UNION {{<<key>> \o p : p \in LeafPaths(x.v[key])} : key \in DOMAIN x.v}
    ELSE {<<>>}

RECURSIVE HasPath(_, _)
HasPath(x, path) ==
    \/ path = <<>>
    \/ /\ IsDict(x)
       /\ Head(path) \in DOMAIN x.v
       /\ HasPath(x.v[Head(path)], Tail(path))

RECURSIVE At(_, _)
At(x, path) == IF path = <<>> THEN x ELSE At(x.v[Head(path)], Tail(path))

\* the override says nothing about the path: it has neither the path
\* itself nor a value that is not a dict at a key above it
AbsentFrom(override, path) ==
    \A n \in 1..Len(path) :
        LET upto == SubSeq(path, 1, n)
        IN  HasPath(override, upto) =>
                (n < Len(path) /\ IsDict(At(override, upto)))

\* the last step loaded a user file that parses to a mapping
LoadedMapping ==
    /\ val.kind = "load"
    /\ val.input.exists /\ val.input.parses
    /\ IsDict(val.input.value)

\* C18: after loading a user file that parses to a mapping, the policy is
\* the deep merge of it over the defaults: every leaf of the override is in
\* the policy with the override's value, every default leaf the override
\* says nothing about keeps its default value, at each nesting level, keys
\* the defaults do not have are added, and nothing else is in the policy.
C18_DeepMergeOverDefaults ==
    LoadedMapping =>
        LET override == val.input.value
            merged == val.result
        IN  /\ config = Untag(merged)
            /\ \A p \in LeafPaths(override) :
                   HasPath(merged, p) /\ At(merged, p) = At(override, p)
            /\ \A p \in LeafPaths(DefaultTree) :
                   AbsentFrom(override, p) =>
                       HasPath(merged, p) /\ At(merged, p) = At(DefaultTree, p)
            /\ LeafPaths(merged) \subseteq LeafPaths(override) \cup LeafPaths(DefaultTree)

C18_Witness ==
    /\ LoadedMapping
    /\ HasPath(val.input.value, <<"python", "extra">>)
    /\ HasPath(val.input.value, <<"custom", "level", "a">>)
    /\ ~HasPath(val.input.value, <<"shell">>)
    /\ config.python.allow_file_operations = TRUE
    /\ config.python.extra = 1
    /\ config.python.safe_modules = DefaultSafeModules
    /\ config.custom.level.a = 1
    /\ config.shell = DefaultShell

\* the user policy file is corrupt: it does not parse, or not to a mapping
CorruptFile(file) ==
    file.exists /\ (~file.parses \/ (Truthy(file.value) /\ ~IsDict(file.value)))

\* C19: whatever the user policy file holds, loading ends with a policy,
\* which for a corrupt file is the built-in defaults, and neither the
\* construction of the tools nor a validator call fails afterwards.
C19_AnyFileIsHarmless ==
    /\ (val.kind = "load" /\ CorruptFile(val.input)) => config = _load_default_config
    /\ last.op \in {"__init__", "_validate_code_safety"} => last.raised = ""

(***************************************************************************)
(* Properties of concurrent tool calls (specification SpecConcurrent).     *)
(***************************************************************************)
IsPrefix(s, t) == Len(s) <= Len(t) /\ SubSeq(t, 1, Len(s)) = s

\* thread t returns from an executed call in this step
Completes(t) ==
    /\ in_flight[t].pc # "done"
    /\ in_flight'[t].pc = "done"
    /\ in_flight'[t].engine_called

\* the records of both logs are kept and each log holds records of its own kind
LogsOnlyGrow ==
    /\ IsPrefix(python_log, python_log')
    /\ IsPrefix(shell_log, shell_log')
    /\ Len(python_log') + Len(shell_log') <= Len(python_log) + Len(shell_log) + 1
    /\ \A i \in 1..Len(python_log') : python_log'[i].type = "python"
    /\ \A i \in 1..Len(shell_log') : shell_log'[i].type = "shell"

\* the step appends one record of the call of thread t to the log of its tool
AppendsOneRecord(t) ==
    LET call == in_flight'[t]
        own == IF call.op = "execute_python_code" THEN python_log ELSE shell_log
        own_after == IF call.op = "execute_python_code" THEN python_log' ELSE shell_log'
    IN  /\ Len(own_after) = Len(own) + 1
        /\ own_after[Len(own_after)].timestamp = call.stamp
        /\ Len(python_log') + Len(shell_log') = Len(python_log) + Len(shell_log) + 1

\* C21: with log_executions true and calls running concurrently, no step
\* removes or changes a record of either log, python records are only in
\* the python log and shell records only in the shell log, and every
\* executed call appends exactly one record.
C21_EveryExecutionAppendsOneRecord ==
    [][config.execution.log_executions =>
          /\ LogsOnlyGrow
          /\ \A t \in Threads : Completes(t) => AppendsOneRecord(t)]_vars

\* C21 as the code has it: the same, except that an executed call whose
\* write of the record fails appends nothing.
C21_AuditLogOnlyGrows ==
    [][config.execution.log_executions =>
          /\ LogsOnlyGrow
          /\ \A t \in Threads :
                 Completes(t) =>
                     IF in_flight'[t].log_failed
                     THEN python_log' = python_log /\ shell_log' = shell_log
                     ELSE AppendsOneRecord(t)]_vars

\* two calls overlapped: the record stamped later was appended first
C21_Witness ==
    /\ config.execution.log_executions
    /\ \A t \in Threads : in_flight[t].pc = "done"
    /\ Len(python_log) = 2
    /\ python_log[1].timestamp > python_log[2].timestamp

(***************************************************************************)
(* Properties of one tool call (specification SpecOneCall).                *)
(***************************************************************************)
\* the excerpt of a payload: the payload, or when it is longer than 200
\* characters its first 200 characters, an ellipsis mark at most added
IsExcerpt(excerpt, payload) ==
    IF Len(payload) <= 200 THEN excerpt = payload
    ELSE excerpt \in {SubSeq(payload, 1, 200), SubSeq(payload, 1, 200) \o "..."}

\* the payload field of an audit record
PayloadField(entry) == IF entry.type = "python" THEN entry.code ELSE entry.command

\* C22: in every audit record, python or shell, the payload field is the
\* payload truncated to 200 characters: it holds no more of the code or
\* command than its first 200 characters.
C22_PayloadIsTruncated ==
    last.log_written => IsExcerpt(PayloadField(last.log_entry), last.payload)

\* commands shlex cannot tokenize: an open quote, a trailing escape
Untokenizable == {"ls 'a", "ls \\", "echo \"x"}

\* commands with no token
BlankCommands == {"", "   ", "\t\n"}

RejectionPrefix == "Error: Security validation failed: "

\* what a call of run_shell_command on a blank or untokenizable command
\* returns when the validator has rejected it
ReturnsParseRejection ==
    /\ last.raised = ""
    /\ ~last.engine_called
    /\ last.payload \in Untokenizable =>
           StartsWith(last.ret, RejectionPrefix \o "Command parsing error")
    /\ last.payload \in BlankCommands =>
           last.ret = RejectionPrefix \o "Empty command"

\* C23: the shell validator gives a verdict on every command and raises
\* nothing; a command that cannot be tokenized is rejected with a reason
\* starting "Command parsing error", a command with no token with the
\* reason "Empty command", and run_shell_command then returns the error
\* string without calling the engine.
C23_ParseFailureIsReturned ==
    (last.op = "run_shell_command" /\ last.payload \in Untokenizable \cup BlankCommands)
        => ReturnsParseRejection

\* C23 as the code has it: the same when audit_mode is false; in audit
\* mode the validator is not run, the call returns the audit echo and the
\* engine is not called either.
C23_ParseFailureIsReturnedUnlessAudit ==
    /\ (last.op = "run_shell_command" /\ last.validated) =>
           /\ last.verdict[1] \in BOOLEAN
           /\ last.verdict[1] => last.engine_called
    /\ (last.op = "run_shell_command" /\ last.payload \in Untokenizable \cup BlankCommands) =>
           IF config.execution.audit_mode
           THEN /\ ~last.validated /\ ~last.engine_called /\ last.raised = ""
                /\ StartsWith(last.ret, "[AUDIT MODE]")
           ELSE /\ last.validated /\ ~last.verdict[1]
                /\ last.payload \in Untokenizable =>
                       StartsWith(last.verdict[2], "Command parsing error")
                /\ last.payload \in BlankCommands => last.verdict[2] = "Empty command"
                /\ ReturnsParseRejection

\* a whitespace-only command was rejected as empty by a call
C23_Witness ==
    /\ last.op = "run_shell_command"
    /\ last.payload = "   "
    /\ last.ret = "Error: Security validation failed: Empty command"

\* the reason of the hard-ban pattern rm -rf /
HardBanReason == "Dangerous command pattern detected: rm\\s+-rf\\s+/"

RmRfCall == last.op = "run_shell_command" /\ last.payload = "rm -rf /"

\* C24: run_shell_command("rm -rf /") is rejected by the hard-ban pattern
\* check: the returned reason is the dangerous-pattern one, whatever
\* allowed_commands and blocked_commands hold, the default lists included.
C24_RmRfCitesHardBan ==
    (RmRfCall /\ ~config.execution.audit_mode) =>
        /\ ~last.engine_called
        /\ last.ret = RejectionPrefix \o HardBanReason

\* C24 as the code has it: the call is rejected under all lists; the reason
\* is the dangerous-pattern one only when rm is allowed and not blocked,
\* and otherwise the reason of the list that stopped rm, which under the
\* default lists is the allow-list.
C24_RmRfRejected ==
    (RmRfCall /\ ~config.execution.audit_mode) =>
        /\ ~last.engine_called
        /\ last.raised = ""
        /\ last.ret =
             RejectionPrefix \o
               (IF ~InList("rm", config.shell.allowed_commands)
                THEN "Command 'rm' is not in allowed list"
                ELSE IF InList("rm", config.shell.blocked_commands)
                THEN "Command 'rm' is blocked"
                ELSE HardBanReason)

\* rm -rf / was stopped by the pattern under lists that let rm through
C24_Witness ==
    /\ RmRfCall
    /\ InList("rm", config.shell.allowed_commands)
    /\ last.ret = RejectionPrefix \o HardBanReason

(***************************************************************************)
(* Further properties of the validators (specification SpecValidate).      *)
(***************************************************************************)
\* the line is blank, or its first non-blank character is #
BlankOrComment(line) ==
    LET shown == {i \in 1..Len(line) : CharAt(line, i) \notin Whitespace}
    IN  shown = {} \/ CharAt(line, Min(shown)) = "#"

\* the line holds a dangerous function call, a dangerous import or, when
\* file operations are not allowed, a file operation
HoldsViolation(line) ==
    \/ \E i \in 1..Len(config.python.dangerous_functions) :
           Contains(line, config.python.dangerous_functions[i] \o "(")
    \/ ImportedDangerous(line) # {}
    \/ ~config.python.allow_file_operations /\ FileOperation(line)

\* the 1-based numbers of the lines of the code that are not skipped and
\* hold a violation
ViolatingLines(code) ==
    {n \in 1..Len(Split(code, "\n")) :
        /\ ~BlankOrComment(Split(code, "\n")[n])
        /\ HoldsViolation(Split(code, "\n")[n])}

\* C28: the Python validator skips blank lines and lines whose first
\* non-blank character is #; it rejects exactly when a line that is not
\* skipped holds a violation, and the reason then reports the smallest
\* 1-based number of such a line; code whose only matches are on skipped
\* lines is safe.
C28_FirstViolatingLineReported ==
    val.kind = "python" =>
        IF ViolatingLines(val.input) = {}
        THEN val.result = <<TRUE, "Code safety validation passed">>
        ELSE /\ ~val.result[1]
             /\ EndsWith(val.result[2],
                         " at line " \o ToString(Min(ViolatingLines(val.input))))

\* a rejection at line 3 of code whose line 2 is a comment holding a match
C28_Witness ==
    /\ val.kind = "python"
    /\ val.input = "x = 1\n# import sys\n  from subprocess import run"
    /\ val.result = <<FALSE, "Dangerous module 'subprocess' import found at line 3">>

\* code whose only match is on a comment line was reported safe
C28_WitnessSkipped ==
    /\ val.kind = "python"
    /\ val.input = "# eval("
    /\ val.result[1]

\* the tokens a POSIX shell reads from the commands of EdgeCommands that
\* have any
TokensOf(command) ==
    CASE command = "ls" -> <<"ls">>
      [] command = "ls 'a b' c" -> <<"ls", "a b", "c">>
      [] command = "'ls' -l" -> <<"ls", "-l">>
      [] command = "rm -rf /" -> <<"rm", "-rf", "/">>
      [] OTHER -> <<"ls", SubSeq(command, 4, Len(command))>>

\* C30: the argument vector the shell engine gets is the quoting-aware
\* tokenization of the command of the call, which the validator accepted:
\* its first element is in allowed_commands and not in blocked_commands;
\* the tail is the one of the call (100 when omitted); the Python engine
\* gets the code of the call unchanged and its variable_to_return.
C30_EngineGetsWhatWasValidated ==
    last.engine_called =>
        /\ last.validated /\ last.verdict[1]
        /\ last.engine_opt = last.opt
        /\ last.op = "execute_python_code" =>
               /\ last.engine_arg = last.payload
               /\ last.engine_opt \in {NoVariable, "x"}
        /\ last.op = "run_shell_command" =>
               /\ last.engine_arg = TokensOf(last.payload)
               /\ InList(last.engine_arg[1], config.shell.allowed_commands)
               /\ ~InList(last.engine_arg[1], config.shell.blocked_commands)
               /\ last.engine_opt \in {100, 5}

\* a quoted command went to the engine as three tokens, with the default tail
C30_Witness ==
    /\ last.op = "run_shell_command" /\ last.payload = "ls 'a b' c"
    /\ last.engine_called
    /\ last.engine_arg = <<"ls", "a b", "c">>
    /\ last.engine_opt = 100

(***************************************************************************)
(* Properties of ExecutionContext (specification SpecContext).             *)
(***************************************************************************)
\* C25: a created ExecutionContext has end_time unset until finish();
\* finish() sets end_time and no operation changes execution_id,
\* start_time, work_dir or user_context; once finished, execution_time is
\* end_time - start_time whatever the clock says.
C25_FinishOnlySetsEndTime ==
    [][/\ (context.op = "none" /\ context'.op # "none") =>
              context'.end_time.type = "none"
       /\ context.op # "none" =>
              /\ context'.execution_id = context.execution_id
              /\ context'.start_time = context.start_time
              /\ context'.work_dir = context.work_dir
              /\ context'.user_context = context.user_context
              /\ context'.end_time # context.end_time =>
                     context'.op = "finish" /\ context'.end_time = PyInt(clock)
              /\ context'.op = "finish" => context'.end_time.type = "int"
              /\ (context'.op = "execution_time" /\ context.end_time.type = "int") =>
                     context'.result = context.end_time.v - context.start_time]_vars

\* the execution time of a finished context was read after the clock had
\* moved on from its end_time
C25_Witness ==
    /\ context.op = "execution_time"
    /\ context.end_time.type = "int"
    /\ context.end_time.v # clock
    /\ context.end_time.v # context.start_time
    /\ context.result = context.end_time.v - context.start_time

(***************************************************************************)
(* Properties of EvalRunner.run_suite (specification SpecEvals).           *)
(***************************************************************************)
\* C26: whatever the agent does, also when it raises on some case,
\* run_suite calls it once for each case in suite order and returns a
\* report with len(results) = total = the number of cases and
\* passed + failed = total, passed being the number of successful results;
\* a case whose agent call raises gives a failed result with the error
\* text, and the later cases are still run.
C26_ReportCountsEveryCase ==
    evals.pc = "done" =>
        LET cases == evals.suite.cases
            report == evals.report
        IN  /\ Len(report.results) = Len(cases)
            /\ report.total = Len(cases)
            /\ report.passed + report.failed = report.total
            /\ report.passed =
                   Cardinality({i \in 1..Len(cases) : report.results[i].success})
            /\ Len(evals.agent_calls) = Len(cases)
            /\ \A i \in 1..Len(cases) :
                   /\ evals.agent_calls[i].input = cases[i].input
                   /\ report.results[i].case = cases[i]
                   /\ evals.agent_calls[i].behaviour.kind = "raise" =>
                          /\ ~report.results[i].success
                          /\ report.results[i].error =
                                 PyStr(evals.agent_calls[i].behaviour.message)

\* the agent raised on the first of two cases and the second one passed
C26_Witness ==
    /\ evals.pc = "done"
    /\ Len(evals.suite.cases) = 2
    /\ evals.agent_calls[1].behaviour.kind = "raise"
    /\ evals.report.results[2].success
    /\ evals.report.passed = 1 /\ evals.report.failed = 1

(***************************************************************************)
(* Properties of RemoteAgent (specification SpecRemote).                   *)
(***************************************************************************)
Called27 == remote.op \in {"arun", "acontinue_run"}

\* session_id, user_id, agent_id and the client method of the last call
SessionUserAndMethod ==
    /\ remote.sent.session_id =
           (IF remote.request.session_id # PyNone THEN remote.request.session_id
            ELSE remote.given.session_id)
    /\ remote.sent.user_id =
           (IF remote.request.user_id # PyNone THEN remote.request.user_id
            ELSE remote.given.user_id)
    /\ remote.sent.agent_id = remote.given.agent_id
    /\ remote.sent.method =
           (IF remote.op = "arun"
            THEN IF remote.request.stream THEN "run_agent_stream" ELSE "run_agent"
            ELSE IF remote.request.stream THEN "continue_agent_run_stream"
                 ELSE "continue_agent_run")

\* C27: arun and acontinue_run pass the client the session_id and user_id
\* of the call when they are not None and else those of the construction;
\* agent_id is the one of the construction; run_id and the updated tools
\* are forwarded unchanged; the streaming method of the client is used
\* exactly when stream is true.
C27_ForwardsUnchanged ==
    Called27 =>
        /\ SessionUserAndMethod
        /\ remote.op = "acontinue_run" =>
               /\ remote.sent.run_id = remote.request.run_id
               /\ remote.sent.tools = remote.request.updated_tools

\* C27 as the code has it: a run_id of None goes out as "" and updated
\* tools of None as the empty list; given values are forwarded unchanged.
C27_ForwardsWithDefaults ==
    Called27 =>
        /\ SessionUserAndMethod
        /\ remote.op = "acontinue_run" =>
               /\ remote.sent.run_id =
                      (IF remote.request.run_id = PyNone THEN PyStr("")
                       ELSE remote.request.run_id)
               /\ remote.sent.tools =
                      (IF remote.request.updated_tools = PyNone THEN PyList(<<>>)
                       ELSE remote.request.updated_tools)

\* a continued run with its own session, streamed, and the user of the
\* construction
C27_Witness ==
    /\ remote.op = "acontinue_run"
    /\ remote.request.stream
    /\ remote.request.session_id = PyStr("s1")
    /\ remote.request.user_id = PyNone
    /\ remote.given.user_id = PyStr("u0")
    /\ remote.sent.method = "continue_agent_run_stream"
    /\ remote.sent.session_id = PyStr("s1")
    /\ remote.sent.user_id = PyStr("u0")
    /\ remote.sent.tools = PyList(<<"call-1">>)

(***************************************************************************)
(* Properties of the context guard (specification SpecGuard).              *)
(***************************************************************************)
\* every run that started has had its post-hook
AllRunsOver ==
    /\ \A r \in 1..MaxRuns : agent.runs[r].pc \in {"idle", "done"}
    /\ \E r \in 1..MaxRuns : agent.runs[r].pc = "done"

\* C29: when every pre-hook of a sequence of runs on the agent, overlapping
\* or not, has been followed by its post-hook, num_history_runs is what it
\* was before the first pre-hook and _ctx_guard_prev is removed.
C29_SettingsRestored ==
    AllRunsOver =>
        /\ agent.num_history_runs = agent.built_with
        /\ agent._ctx_guard_prev = Absent

====
